---------------------------- MODULE Spec2Model ----------------------------
(***************************************************************************)
(* Movement Analysis Engine of sportmovementapp: biomechanics primitives,  *)
(* timeline builders, key-moment detector, phase segmenter, metrics        *)
(* aggregator, weakness rule engine and drill-recommendation matcher;      *)
(* and the replay screen's frame lookup (analysisLoader) and playback      *)
(* synchronisation hook (useVideoSync).                                    *)
(*                                                                         *)
(* Number representation.  The source computes on IEEE doubles.  Here      *)
(*   - coordinates, distances, visibilities are in hundredths (0.45 = 45), *)
(*   - timestamps and durations are in milliseconds,                       *)
(*   - velocities are in hundredths of a unit per second,                  *)
(*   - angles are in degrees, on a 5-degree grid,                          *)
(*   - Math.sqrt is the integer square root, division is \div,             *)
(*   - null, undefined, NaN and Infinity, where a number may be one of     *)
(*     them, are four integers outside the range of every measurement;     *)
(*     an object that may be undefined or null (the result of find) is a   *)
(*     list of length 0 or 1.                                              *)
(***************************************************************************)
EXTENDS Integers, Sequences, FiniteSets, TLC

Infinity == 1000 * 1000 * 1000
Null == 0 - Infinity - 1
Undefined == 0 - Infinity - 2
NaN == 0 - Infinity - 3

\* An object that may be absent.
None == << >>
Some(v) == << v >>
Has(o) == Len(o) > 0

Abs(a) == IF a < 0 THEN -a ELSE a

Min2(a, b) == IF a < b THEN a ELSE b

Max2(a, b) == IF a > b THEN a ELSE b

\* Math.sqrt on the fixed-point grid: the floor of the square root.
\* (by bisection: lo * lo <= n < hi * hi)
RECURSIVE SqrtBetween(_, _, _)
SqrtBetween(n, lo, hi) ==
  IF hi - lo <= 1 THEN lo
  ELSE LET mid == (lo + hi) \div 2
       IN IF mid * mid <= n THEN SqrtBetween(n, mid, hi) ELSE SqrtBetween(n, lo, mid)

Sqrt(n) == SqrtBetween(n, 0, Min2(n + 1, 46341))

\* Array.prototype.filter on a sequence.
Filter(s, Keep(_)) == SelectSeq(s, Keep)

\* Array.prototype.find: the first element satisfying the test, or undefined.
Find(s, Test(_)) ==
  LET hits == {i \in 1..Len(s) : Test(s[i])}
  IN IF hits = {} THEN None
     ELSE Some(s[CHOOSE i \in hits : \A j \in hits : i <= j])

\* Array.prototype.slice(0, n).
Slice(s, n) == SubSeq(s, 1, Min2(n, Len(s)))

RECURSIVE SumSeq(_)
SumSeq(s) == IF s = <<>> THEN 0 ELSE Head(s) + SumSeq(Tail(s))

\* Math.max(...s) and Math.min(...s) on a non-empty list of numbers.
RECURSIVE MaxSeq(_)
MaxSeq(s) == IF Len(s) = 1 THEN s[1] ELSE Max2(Head(s), MaxSeq(Tail(s)))

RECURSIVE MinSeq(_)
MinSeq(s) == IF Len(s) = 1 THEN s[1] ELSE Min2(Head(s), MinSeq(Tail(s)))

\* Array.prototype.indexOf, as a 1-based index (0 when absent).
RECURSIVE IndexOfFrom(_, _, _)
IndexOfFrom(s, v, i) ==
  IF i > Len(s) THEN 0 ELSE IF s[i] = v THEN i ELSE IndexOfFrom(s, v, i + 1)

IndexOf(s, v) == IndexOfFrom(s, v, 1)

----------------------------------------------------------------------------
(* biomechanics.ts *)

\* round(1000 * cos(5k degrees)), k = 0..36
CosTable ==
  << 1000, 996, 985, 966, 940, 906, 866, 819, 766, 707, 643, 574, 500,
     423, 342, 259, 174, 87, 0, -87, -174, -259, -342, -423, -500, -574,
     -643, -707, -766, -819, -866, -906, -940, -966, -985, -996, -1000 >>

\* Math.acos(c) * 180 / Math.PI for c in thousandths, clamped to [-1, 1]:
\* the first grid angle whose cosine is <= c.
RECURSIVE AcosFrom(_, _)
AcosFrom(c, k) == IF CosTable[k] <= c THEN 5 * (k - 1) ELSE AcosFrom(c, k + 1)

AcosDeg(c) == AcosFrom(Max2(-1000, Min2(1000, c)), 1)

\* calculateAngle: no guard for a zero-length vector; 0/0 is NaN and
\* Math.max/Math.min/Math.acos propagate it.
CalculateAngle(point1, vertex, point2) ==
  LET v1x == point1.x - vertex.x
      v1y == point1.y - vertex.y
      v1z == point1.z - vertex.z
      v2x == point2.x - vertex.x
      v2y == point2.y - vertex.y
      v2z == point2.z - vertex.z
      dotProduct == v1x * v2x + v1y * v2y + v1z * v2z
      sq1 == v1x * v1x + v1y * v1y + v1z * v1z
      sq2 == v2x * v2x + v2y * v2y + v2z * v2z
  IN IF sq1 = 0 \/ sq2 = 0 THEN NaN
     ELSE LET magnitude1 == Sqrt(sq1 * 100)    \* in tenths of a grid unit
              magnitude2 == Sqrt(sq2 * 100)
          IN AcosDeg((dotProduct * 10000) \div ((magnitude1 * magnitude2) \div 10))

CalculateDistance(point1, point2) ==
  LET dx == point2.x - point1.x
      dy == point2.y - point1.y
      dz == point2.z - point1.z
  IN Sqrt(dx * dx + dy * dy + dz * dz)

Calculate2DDistance(point1, point2) ==
  LET dx == point2.x - point1.x
      dy == point2.y - point1.y
  IN Sqrt(dx * dx + dy * dy)

\* A plausible slip: the zero-duration guard is missing, so the division
\* by zero yields Infinity (or NaN when the points coincide).
CalculateVelocityNoGuard(point1, point2, deltaTime) ==
  IF deltaTime = 0
    THEN IF CalculateDistance(point1, point2) = 0 THEN NaN ELSE Infinity
    ELSE (CalculateDistance(point1, point2) * 1000) \div deltaTime

\* calculateVelocity: distance / deltaTime, 0 when deltaTime is 0.
\* deltaTime is in milliseconds, the result in hundredths per second.
CalculateVelocity(point1, point2, deltaTime) ==
  IF deltaTime = 0 THEN 0
  ELSE (CalculateDistance(point1, point2) * 1000) \div deltaTime

\* keypoints.find(kp => kp.id === id)
FindKeypoint(keypoints, id) == Find(keypoints, LAMBDA kp : kp.id = id)

\* The fixed visibility threshold of the joint helpers (0.5).
Visible(kp) == Has(kp) /\ kp[1].visibility >= 50

\* A plausible slip: <= in place of <, so a landmark at exactly 0.5 is
\* rejected.
CalculateRightElbowAngleInclusive(keypoints) ==
  LET shoulder == FindKeypoint(keypoints, 12)
      elbow == FindKeypoint(keypoints, 14)
      wrist == FindKeypoint(keypoints, 16)
  IN IF ~Has(shoulder) \/ ~Has(elbow) \/ ~Has(wrist) THEN Null
     ELSE IF shoulder[1].visibility <= 50 \/ elbow[1].visibility <= 50 \/ wrist[1].visibility <= 50
       THEN Null
     ELSE CalculateAngle(shoulder[1], elbow[1], wrist[1])

CalculateRightElbowAngle(keypoints) ==
  LET shoulder == FindKeypoint(keypoints, 12)
      elbow == FindKeypoint(keypoints, 14)
      wrist == FindKeypoint(keypoints, 16)
  IN IF ~Has(shoulder) \/ ~Has(elbow) \/ ~Has(wrist) THEN Null
     ELSE IF shoulder[1].visibility < 50 \/ elbow[1].visibility < 50 \/ wrist[1].visibility < 50
       THEN Null
     ELSE CalculateAngle(shoulder[1], elbow[1], wrist[1])

CalculateRightShoulderAngle(keypoints) ==
  LET elbow == FindKeypoint(keypoints, 14)
      shoulder == FindKeypoint(keypoints, 12)
      hip == FindKeypoint(keypoints, 24)
  IN IF ~Has(elbow) \/ ~Has(shoulder) \/ ~Has(hip) THEN Null
     ELSE IF elbow[1].visibility < 50 \/ shoulder[1].visibility < 50 \/ hip[1].visibility < 50
       THEN Null
     ELSE CalculateAngle(elbow[1], shoulder[1], hip[1])

CalculateLeftElbowAngle(keypoints) ==
  LET shoulder == FindKeypoint(keypoints, 11)
      elbow == FindKeypoint(keypoints, 13)
      wrist == FindKeypoint(keypoints, 15)
  IN IF ~Has(shoulder) \/ ~Has(elbow) \/ ~Has(wrist) THEN Null
     ELSE IF shoulder[1].visibility < 50 \/ elbow[1].visibility < 50 \/ wrist[1].visibility < 50
       THEN Null
     ELSE CalculateAngle(shoulder[1], elbow[1], wrist[1])

CalculateLeftShoulderAngle(keypoints) ==
  LET elbow == FindKeypoint(keypoints, 13)
      shoulder == FindKeypoint(keypoints, 11)
      hip == FindKeypoint(keypoints, 23)
  IN IF ~Has(elbow) \/ ~Has(shoulder) \/ ~Has(hip) THEN Null
     ELSE IF elbow[1].visibility < 50 \/ shoulder[1].visibility < 50 \/ hip[1].visibility < 50
       THEN Null
     ELSE CalculateAngle(elbow[1], shoulder[1], hip[1])

CalculateRightKneeAngle(keypoints) ==
  LET hip == FindKeypoint(keypoints, 24)
      knee == FindKeypoint(keypoints, 26)
      ankle == FindKeypoint(keypoints, 28)
  IN IF ~Has(hip) \/ ~Has(knee) \/ ~Has(ankle) THEN Null
     ELSE IF hip[1].visibility < 50 \/ knee[1].visibility < 50 \/ ankle[1].visibility < 50
       THEN Null
     ELSE CalculateAngle(hip[1], knee[1], ankle[1])

CalculateLeftKneeAngle(keypoints) ==
  LET hip == FindKeypoint(keypoints, 23)
      knee == FindKeypoint(keypoints, 25)
      ankle == FindKeypoint(keypoints, 27)
  IN IF ~Has(hip) \/ ~Has(knee) \/ ~Has(ankle) THEN Null
     ELSE IF hip[1].visibility < 50 \/ knee[1].visibility < 50 \/ ankle[1].visibility < 50
       THEN Null
     ELSE CalculateAngle(hip[1], knee[1], ankle[1])

CalculateRightHipAngle(keypoints) ==
  LET shoulder == FindKeypoint(keypoints, 12)
      hip == FindKeypoint(keypoints, 24)
      knee == FindKeypoint(keypoints, 26)
  IN IF ~Has(shoulder) \/ ~Has(hip) \/ ~Has(knee) THEN Null
     ELSE IF shoulder[1].visibility < 50 \/ hip[1].visibility < 50 \/ knee[1].visibility < 50
       THEN Null
     ELSE CalculateAngle(shoulder[1], hip[1], knee[1])

CalculateLeftHipAngle(keypoints) ==
  LET shoulder == FindKeypoint(keypoints, 11)
      hip == FindKeypoint(keypoints, 23)
      knee == FindKeypoint(keypoints, 25)
  IN IF ~Has(shoulder) \/ ~Has(hip) \/ ~Has(knee) THEN Null
     ELSE IF shoulder[1].visibility < 50 \/ hip[1].visibility < 50 \/ knee[1].visibility < 50
       THEN Null
     ELSE CalculateAngle(shoulder[1], hip[1], knee[1])

\* calculateTorsoAngle: atan2(|dx|, |dy|) of the hip-midpoint to
\* shoulder-midpoint vector, in degrees; atan2(0, 0) is 0.  For a non-zero
\* vector atan2(|dx|, |dy|) = acos(|dy| / sqrt(dx^2 + dy^2)).
CalculateTorsoAngle(keypoints) ==
  LET leftShoulder == FindKeypoint(keypoints, 11)
      rightShoulder == FindKeypoint(keypoints, 12)
      leftHip == FindKeypoint(keypoints, 23)
      rightHip == FindKeypoint(keypoints, 24)
  IN IF ~Has(leftShoulder) \/ ~Has(rightShoulder)
        \/ ~Has(leftHip) \/ ~Has(rightHip) THEN Null
     ELSE IF leftShoulder[1].visibility < 50 \/ rightShoulder[1].visibility < 50
             \/ leftHip[1].visibility < 50 \/ rightHip[1].visibility < 50 THEN Null
     ELSE LET dy2 == (leftShoulder[1].y + rightShoulder[1].y) - (leftHip[1].y + rightHip[1].y)
              dx2 == (leftShoulder[1].x + rightShoulder[1].x) - (leftHip[1].x + rightHip[1].x)
          IN IF dx2 = 0 /\ dy2 = 0 THEN 0
             ELSE AcosDeg((Abs(dy2) * 100000) \div Sqrt((dx2 * dx2 + dy2 * dy2) * 10000))

\* calculateCenterOfMass: the arithmetic mean of the given keypoints.
CalculateCenterOfMass(keypoints) ==
  IF Len(keypoints) = 0 THEN [x |-> 0, y |-> 0, z |-> 0]
  ELSE [x |-> SumSeq([i \in 1..Len(keypoints) |-> keypoints[i].x]) \div Len(keypoints),
        y |-> SumSeq([i \in 1..Len(keypoints) |-> keypoints[i].y]) \div Len(keypoints),
        z |-> SumSeq([i \in 1..Len(keypoints) |-> keypoints[i].z]) \div Len(keypoints)]

\* calculateBodyCenterOfMass: shoulders and hips with visibility >= 0.5,
\* at least two of them, else null.
CalculateBodyCenterOfMass(keypoints) ==
  LET candidates == << FindKeypoint(keypoints, 11), FindKeypoint(keypoints, 12),
                       FindKeypoint(keypoints, 23), FindKeypoint(keypoints, 24) >>
      valid == Filter(candidates, Visible)
      validPoints == [i \in 1..Len(valid) |-> valid[i][1]]
  IN IF Len(validPoints) < 2 THEN None ELSE Some(CalculateCenterOfMass(validPoints))

CalculateShoulderWidth(keypoints) ==
  LET leftShoulder == FindKeypoint(keypoints, 11)
      rightShoulder == FindKeypoint(keypoints, 12)
  IN IF ~Has(leftShoulder) \/ ~Has(rightShoulder) THEN Null
     ELSE IF leftShoulder[1].visibility < 50 \/ rightShoulder[1].visibility < 50 THEN Null
     ELSE Calculate2DDistance(leftShoulder[1], rightShoulder[1])

CalculateRightArmExtension(keypoints) ==
  LET shoulder == FindKeypoint(keypoints, 12)
      wrist == FindKeypoint(keypoints, 16)
  IN IF ~Has(shoulder) \/ ~Has(wrist) THEN Null
     ELSE IF shoulder[1].visibility < 50 \/ wrist[1].visibility < 50 THEN Null
     ELSE CalculateDistance(shoulder[1], wrist[1])

----------------------------------------------------------------------------
(* movementAnalyzer.ts: timelines *)

\* DEFAULT_OPTIONS.minVisibility (0.5)
DefaultMinVisibility == 50

\* opts = { ...DEFAULT_OPTIONS, ...options }: an option the caller leaves
\* out keeps its default.
MergeOptions(options) ==
  [minVisibility |-> IF options.minVisibility = Undefined
                       THEN DefaultMinVisibility ELSE options.minVisibility]

\* (opts.minVisibility || 0.5): a falsy (zero) threshold falls back to 0.5.
WristThreshold(o) == IF o.minVisibility = 0 THEN 50 ELSE o.minVisibility

\* The loop body of calculateVelocityTimeline for the pair (i-1, i):
\* the list of points it pushes (one or none).
VelocityPointAt(frames, o, i) ==
  LET currentFrame == frames[i]
      previousFrame == frames[i - 1]
      currentWrist == FindKeypoint(currentFrame.keypoints, 16)
      previousWrist == FindKeypoint(previousFrame.keypoints, 16)
  IN IF Has(currentWrist) /\ Has(previousWrist)
        /\ currentWrist[1].visibility >= WristThreshold(o)
        /\ previousWrist[1].visibility >= WristThreshold(o)
       THEN << [frame |-> currentFrame.frame_number,
                timestamp |-> currentFrame.timestamp,
                velocity |-> CalculateVelocity(previousWrist[1], currentWrist[1],
                               currentFrame.timestamp - previousFrame.timestamp),
                bodyPart |-> "Right Wrist"] >>
       ELSE << >>

RECURSIVE VelocityFrom(_, _, _)
VelocityFrom(frames, o, i) ==
  IF i > Len(frames) THEN << >>
  ELSE VelocityPointAt(frames, o, i) \o VelocityFrom(frames, o, i + 1)

CalculateVelocityTimeline(frames, o) == VelocityFrom(frames, o, 2)

\* A plausible slip: an entry is pushed only when the helper returned an
\* angle.
RECURSIVE CalculateAngleTimelineMeasured(_)
CalculateAngleTimelineMeasured(frames) ==
  IF frames = << >> THEN << >>
  ELSE LET frame == Head(frames)
           elbowAngle == CalculateRightElbowAngle(frame.keypoints)
           shoulderAngle == CalculateRightShoulderAngle(frame.keypoints)
       IN (IF elbowAngle = Null THEN << >>
           ELSE << [frame |-> frame.frame_number, timestamp |-> frame.timestamp,
                    angle |-> elbowAngle, joint |-> "Right Elbow"] >>)
          \o (IF shoulderAngle = Null THEN << >>
              ELSE << [frame |-> frame.frame_number, timestamp |-> frame.timestamp,
                       angle |-> shoulderAngle, joint |-> "Right Shoulder"] >>)
          \o CalculateAngleTimelineMeasured(Tail(frames))

RECURSIVE CalculateAngleTimeline(_)
CalculateAngleTimeline(frames) ==
  IF frames = << >> THEN << >>
  ELSE LET frame == Head(frames)
       IN << [frame |-> frame.frame_number, timestamp |-> frame.timestamp,
              angle |-> CalculateRightElbowAngle(frame.keypoints),
              joint |-> "Right Elbow"],
             [frame |-> frame.frame_number, timestamp |-> frame.timestamp,
              angle |-> CalculateRightShoulderAngle(frame.keypoints),
              joint |-> "Right Shoulder"] >>
          \o CalculateAngleTimeline(Tail(frames))

----------------------------------------------------------------------------
(* movementAnalyzer.ts: key moments *)

\* Array.prototype.sort with a comparator: a stable sort.  Less(a, b) is
\* "the comparator puts a strictly before b".
StableSort(s, Less(_, _)) ==
  LET rank(i) == Cardinality({j \in 1..Len(s) :
                    Less(s[j], s[i]) \/ (~Less(s[i], s[j]) /\ j < i)}) + 1
  IN [k \in 1..Len(s) |-> s[CHOOSE i \in 1..Len(s) : rank(i) = k]]

\* velocityData.reduce((max, current) => current.velocity > max.velocity ? current : max)
RECURSIVE PeakFrom(_, _, _)
PeakFrom(velocityData, max, i) ==
  IF i > Len(velocityData) THEN max
  ELSE PeakFrom(velocityData,
                IF velocityData[i].velocity > max.velocity THEN velocityData[i] ELSE max,
                i + 1)

PeakVelocityData(velocityData) == PeakFrom(velocityData, velocityData[1], 2)

\* The running arg-max of the arm-extension loop: the state after frames
\* i..Len(frames), from the state (maxExtension, maxExtensionFrame).
\* A plausible slip: >= in place of > lets a later frame with the same
\* extension replace the earlier one.
RECURSIVE MaxExtensionFromLatest(_, _, _)
MaxExtensionFromLatest(frames, acc, i) ==
  IF i > Len(frames) THEN acc
  ELSE LET extension == CalculateRightArmExtension(frames[i].keypoints)
       IN MaxExtensionFromLatest(frames,
            IF extension # Null /\ extension >= acc.maxExtension
              THEN [maxExtension |-> extension, maxExtensionFrame |-> Some(frames[i])]
              ELSE acc,
            i + 1)

RECURSIVE MaxExtensionFrom(_, _, _)
MaxExtensionFrom(frames, acc, i) ==
  IF i > Len(frames) THEN acc
  ELSE LET extension == CalculateRightArmExtension(frames[i].keypoints)
       IN MaxExtensionFrom(frames,
            IF extension # Null /\ extension > acc.maxExtension
              THEN [maxExtension |-> extension, maxExtensionFrame |-> Some(frames[i])]
              ELSE acc,
            i + 1)

MaxExtensionScan(frames) ==
  MaxExtensionFrom(frames, [maxExtension |-> 0, maxExtensionFrame |-> None], 1)

\* The running arg-min of the centre-of-mass loop.
RECURSIVE HighestFrom(_, _, _)
HighestFrom(frames, acc, i) ==
  IF i > Len(frames) THEN acc
  ELSE LET com == CalculateBodyCenterOfMass(frames[i].keypoints)
       IN HighestFrom(frames,
            IF Has(com) /\ com[1].y < acc.highestPosition
              THEN [highestPosition |-> com[1].y, highestFrame |-> Some(frames[i])]
              ELSE acc,
            i + 1)

HighestScan(frames) ==
  HighestFrom(frames, [highestPosition |-> Infinity, highestFrame |-> None], 1)

NoMetrics ==
  [velocity |-> Undefined, elbowAngle |-> Undefined, shoulderAngle |-> Undefined,
   armExtension |-> Undefined, bodyHeight |-> Undefined]

PeakVelocityMoments(frames, velocityData) ==
  LET peakVelocityData == PeakVelocityData(velocityData)
      peakVelocityFrame ==
        Find(frames, LAMBDA f : f.frame_number = peakVelocityData.frame)
  IN IF ~Has(peakVelocityFrame) THEN << >>
     ELSE << [frame |-> peakVelocityData.frame,
              timestamp |-> peakVelocityData.timestamp,
              label |-> "Peak Velocity",
              metrics |-> [NoMetrics EXCEPT
                 !.velocity = peakVelocityData.velocity,
                 !.elbowAngle = CalculateRightElbowAngle(peakVelocityFrame[1].keypoints),
                 !.shoulderAngle = CalculateRightShoulderAngle(peakVelocityFrame[1].keypoints),
                 !.armExtension = CalculateRightArmExtension(peakVelocityFrame[1].keypoints)]] >>

\* A plausible variant: the Maximum Extension moment also records the height
\* of the body's centre of mass in its frame.
MaxExtensionMomentsWithHeight(frames, velocityData) ==
  LET scan == MaxExtensionScan(frames)
  IN IF ~Has(scan.maxExtensionFrame) THEN << >>
     ELSE LET maxExtensionFrame == scan.maxExtensionFrame[1]
              velocity == Find(velocityData,
                               LAMBDA v : v.frame = maxExtensionFrame.frame_number)
              com == CalculateBodyCenterOfMass(maxExtensionFrame.keypoints)
          IN << [frame |-> maxExtensionFrame.frame_number,
                 timestamp |-> maxExtensionFrame.timestamp,
                 label |-> "Maximum Extension",
                 metrics |-> [NoMetrics EXCEPT
                    !.armExtension = scan.maxExtension,
                    !.velocity = IF Has(velocity) THEN velocity[1].velocity ELSE Undefined,
                    !.elbowAngle = CalculateRightElbowAngle(maxExtensionFrame.keypoints),
                    !.shoulderAngle =
                       CalculateRightShoulderAngle(maxExtensionFrame.keypoints),
                    !.bodyHeight = IF Has(com) THEN com[1].y ELSE Undefined]] >>

MaxExtensionMoments(frames, velocityData) ==
  LET scan == MaxExtensionScan(frames)
  IN IF ~Has(scan.maxExtensionFrame) THEN << >>
     ELSE LET maxExtensionFrame == scan.maxExtensionFrame[1]
              velocity == Find(velocityData,
                               LAMBDA v : v.frame = maxExtensionFrame.frame_number)
          IN << [frame |-> maxExtensionFrame.frame_number,
                 timestamp |-> maxExtensionFrame.timestamp,
                 label |-> "Maximum Extension",
                 metrics |-> [NoMetrics EXCEPT
                    !.armExtension = scan.maxExtension,
                    !.velocity = IF Has(velocity) THEN velocity[1].velocity ELSE Undefined,
                    !.elbowAngle = CalculateRightElbowAngle(maxExtensionFrame.keypoints),
                    !.shoulderAngle =
                       CalculateRightShoulderAngle(maxExtensionFrame.keypoints)]] >>

PeakHeightMoments(frames) ==
  LET scan == HighestScan(frames)
  IN IF ~Has(scan.highestFrame) THEN << >>
     ELSE << [frame |-> scan.highestFrame[1].frame_number,
              timestamp |-> scan.highestFrame[1].timestamp,
              label |-> "Peak Height",
              metrics |-> [NoMetrics EXCEPT !.bodyHeight = scan.highestPosition]] >>

\* A plausible slip: the moments are returned in the order they were pushed.
DetectKeyMomentsUnsorted(frames, velocityData) ==
  IF Len(velocityData) = 0 \/ Len(frames) = 0 THEN << >>
  ELSE PeakVelocityMoments(frames, velocityData)
         \o MaxExtensionMoments(frames, velocityData)
         \o PeakHeightMoments(frames)

\* detectKeyMoments (the description strings are left out).
DetectKeyMoments(frames, velocityData) ==
  IF Len(velocityData) = 0 \/ Len(frames) = 0 THEN << >>
  ELSE StableSort(PeakVelocityMoments(frames, velocityData)
                    \o MaxExtensionMoments(frames, velocityData)
                    \o PeakHeightMoments(frames),
                  LAMBDA a, b : a.frame < b.frame)

----------------------------------------------------------------------------
(* movementAnalyzer.ts: phases *)

\* One phase block of detectMovementPhases: the phase [from, to] is pushed
\* when some frame has its frame_number in the range (insights left out).
\* A plausible slip: the velocity filter of a phase leaves out its last frame.
PhaseBlockOpenEnd(name, from, to, frames, velocityData) ==
  LET phaseVelocities == Filter(velocityData, LAMBDA v : v.frame >= from /\ v.frame < to)
      phaseFrames == Filter(frames, LAMBDA f : f.frame_number >= from /\ f.frame_number <= to)
      vs == [i \in 1..Len(phaseVelocities) |-> phaseVelocities[i].velocity]
  IN IF Len(phaseFrames) > 0
       THEN << [name |-> name,
                startFrame |-> from,
                endFrame |-> to,
                duration |-> phaseFrames[Len(phaseFrames)].timestamp - phaseFrames[1].timestamp,
                avgVelocity |-> IF Len(vs) > 0 THEN SumSeq(vs) \div Len(vs) ELSE 0,
                maxVelocity |-> IF Len(vs) > 0 THEN MaxSeq(vs) ELSE 0] >>
       ELSE << >>

\* A plausible variant: a phase reports the numbers of its first and last
\* frame instead of the computed bounds of its range.
PhaseBlockActualRange(name, from, to, frames, velocityData) ==
  LET phaseVelocities == Filter(velocityData, LAMBDA v : v.frame >= from /\ v.frame <= to)
      phaseFrames == Filter(frames, LAMBDA f : f.frame_number >= from /\ f.frame_number <= to)
      vs == [i \in 1..Len(phaseVelocities) |-> phaseVelocities[i].velocity]
  IN IF Len(phaseFrames) > 0
       THEN << [name |-> name,
                startFrame |-> phaseFrames[1].frame_number,
                endFrame |-> phaseFrames[Len(phaseFrames)].frame_number,
                duration |-> phaseFrames[Len(phaseFrames)].timestamp - phaseFrames[1].timestamp,
                avgVelocity |-> IF Len(vs) > 0 THEN SumSeq(vs) \div Len(vs) ELSE 0,
                maxVelocity |-> IF Len(vs) > 0 THEN MaxSeq(vs) ELSE 0] >>
       ELSE << >>

PhaseBlock(name, from, to, frames, velocityData) ==
  LET phaseVelocities == Filter(velocityData, LAMBDA v : v.frame >= from /\ v.frame <= to)
      phaseFrames == Filter(frames, LAMBDA f : f.frame_number >= from /\ f.frame_number <= to)
      vs == [i \in 1..Len(phaseVelocities) |-> phaseVelocities[i].velocity]
  IN IF Len(phaseFrames) > 0
       THEN << [name |-> name,
                startFrame |-> from,
                endFrame |-> to,
                duration |-> phaseFrames[Len(phaseFrames)].timestamp - phaseFrames[1].timestamp,
                avgVelocity |-> IF Len(vs) > 0 THEN SumSeq(vs) \div Len(vs) ELSE 0,
                maxVelocity |-> IF Len(vs) > 0 THEN MaxSeq(vs) ELSE 0] >>
       ELSE << >>

\* peakVelocityMoment?.frame || velocityData[Math.floor(velocityData.length / 2)].frame
\* (a missing moment and a moment on frame 0 are both falsy).
PeakVelocityFrame(velocityData, keyMoments) ==
  LET peakVelocityMoment == Find(keyMoments, LAMBDA m : m.label = "Peak Velocity")
  IN IF Has(peakVelocityMoment) /\ peakVelocityMoment[1].frame # 0
       THEN peakVelocityMoment[1].frame
       ELSE velocityData[(Len(velocityData) \div 2) + 1].frame

\* A plausible slip: Math.round in place of Math.floor.
PrepEndFrameRounded(peakVelocityFrame, startFrame) ==
  (10 * peakVelocityFrame - 3 * (peakVelocityFrame - startFrame) + 5) \div 10

\* Math.floor(peakVelocityFrame - (peakVelocityFrame - startFrame) * 0.3)
PrepEndFrame(peakVelocityFrame, startFrame) ==
  (10 * peakVelocityFrame - 3 * (peakVelocityFrame - startFrame)) \div 10

\* Math.min(Math.floor(peakVelocityFrame + (endFrame - peakVelocityFrame) * 0.4), endFrame)
ContactEndFrame(peakVelocityFrame, endFrame) ==
  Min2((10 * peakVelocityFrame + 4 * (endFrame - peakVelocityFrame)) \div 10, endFrame)

DetectMovementPhases(frames, velocityData, keyMoments) ==
  IF Len(frames) = 0 \/ Len(velocityData) = 0 THEN << >>
  ELSE LET peakVelocityFrame == PeakVelocityFrame(velocityData, keyMoments)
           startFrame == frames[1].frame_number
           endFrame == frames[Len(frames)].frame_number
           prepEndFrame == PrepEndFrame(peakVelocityFrame, startFrame)
           accelStartFrame == prepEndFrame + 1
           accelEndFrame == peakVelocityFrame
           contactStartFrame == peakVelocityFrame + 1
           contactEndFrame == ContactEndFrame(peakVelocityFrame, endFrame)
           followStartFrame == contactEndFrame + 1
           followEndFrame == endFrame
       IN PhaseBlock("Preparation", startFrame, prepEndFrame, frames, velocityData)
          \o PhaseBlock("Acceleration", accelStartFrame, accelEndFrame, frames, velocityData)
          \o PhaseBlock("Contact", contactStartFrame, contactEndFrame, frames, velocityData)
          \o PhaseBlock("Follow-through", followStartFrame, followEndFrame, frames, velocityData)

----------------------------------------------------------------------------
(* movementAnalyzer.ts: key metrics *)

\* Math.max(...s) / Math.min(...s) on a non-empty list: NaN if any element is.
JsMax(s) == IF \E i \in 1..Len(s) : s[i] = NaN THEN NaN ELSE MaxSeq(s)

JsMin(s) == IF \E i \in 1..Len(s) : s[i] = NaN THEN NaN ELSE MinSeq(s)

\* s.reduce((sum, a) => sum + a, 0) / s.length on a non-empty list.
JsAverage(s) == IF \E i \in 1..Len(s) : s[i] = NaN THEN NaN ELSE SumSeq(s) \div Len(s)

\* The values a per-frame measure yields over the frames, nulls dropped.
Measured(frames, Measure(_)) ==
  LET all == [i \in 1..Len(frames) |-> Measure(frames[i].keypoints)]
  IN Filter(all, LAMBDA v : v # Null)

\* The joint's non-null angles of the angle timeline.
JointAngles(angleData, joint) ==
  LET kept == Filter(angleData, LAMBDA a : a.joint = joint /\ a.angle # Null)
  IN [i \in 1..Len(kept) |-> kept[i].angle]

\* The centre-of-mass y of every frame that has a centre of mass.
ComYPositions(frames) ==
  LET coms == [i \in 1..Len(frames) |-> CalculateBodyCenterOfMass(frames[i].keypoints)]
      kept == Filter(coms, Has)
  IN [i \in 1..Len(kept) |-> kept[i][1].y]

\* A plausible slip: an empty extension population yields null like the
\* angle fields do.
ArmExtensionRangeNullable(extensions) ==
  [min |-> IF Len(extensions) > 0 THEN MinSeq(extensions) ELSE Null,
   max |-> IF Len(extensions) > 0 THEN MaxSeq(extensions) ELSE Null,
   range |-> IF Len(extensions) > 0 THEN MaxSeq(extensions) - MinSeq(extensions) ELSE Null]

ArmExtensionRange(extensions) ==
  [min |-> IF Len(extensions) > 0 THEN MinSeq(extensions) ELSE 0,
   max |-> IF Len(extensions) > 0 THEN MaxSeq(extensions) ELSE 0,
   range |-> IF Len(extensions) > 0 THEN MaxSeq(extensions) - MinSeq(extensions) ELSE 0]

CalculateKeyMetrics(frames, velocityData, angleData) ==
  LET vs == [i \in 1..Len(velocityData) |-> velocityData[i].velocity]
      peakVelocity == IF Len(vs) > 0 THEN MaxSeq(vs) ELSE 0
      peakVelocityData == Find(velocityData, LAMBDA v : v.velocity = peakVelocity)
      elbowAngles == JointAngles(angleData, "Right Elbow")
      shoulderAngles == JointAngles(angleData, "Right Shoulder")
      extensions == Measured(frames, CalculateRightArmExtension)
      comYPositions == ComYPositions(frames)
      torsoAngles == Measured(frames, CalculateTorsoAngle)
      shoulderWidths == Measured(frames, CalculateShoulderWidth)
  IN [peakVelocity |-> peakVelocity,
      \* peakVelocityData?.frame || 0
      peakVelocityFrame |-> IF Has(peakVelocityData) THEN peakVelocityData[1].frame ELSE 0,
      averageVelocity |-> IF Len(vs) > 0 THEN SumSeq(vs) \div Len(vs) ELSE 0,
      maxElbowAngle |-> IF Len(elbowAngles) > 0 THEN JsMax(elbowAngles) ELSE Null,
      minElbowAngle |-> IF Len(elbowAngles) > 0 THEN JsMin(elbowAngles) ELSE Null,
      maxShoulderAngle |-> IF Len(shoulderAngles) > 0 THEN JsMax(shoulderAngles) ELSE Null,
      armExtensionRange |-> ArmExtensionRange(extensions),
      jumpHeight |-> IF Len(comYPositions) > 0
                       THEN MaxSeq(comYPositions) - MinSeq(comYPositions) ELSE Null,
      \* frames[comYPositions.indexOf(...)]: the index into comYPositions is
      \* used as an index into frames.
      highestBodyPositionFrame |-> IF Len(comYPositions) > 0
         THEN frames[IndexOf(comYPositions, MinSeq(comYPositions))].frame_number ELSE Null,
      lowestBodyPositionFrame |-> IF Len(comYPositions) > 0
         THEN frames[IndexOf(comYPositions, MaxSeq(comYPositions))].frame_number ELSE Null,
      averageTorsoAngle |-> IF Len(torsoAngles) > 0 THEN JsAverage(torsoAngles) ELSE Null,
      shoulderWidth |-> IF Len(shoulderWidths) > 0
                          THEN SumSeq(shoulderWidths) \div Len(shoulderWidths) ELSE Null]

----------------------------------------------------------------------------
(* weaknessDetector.ts *)

SEVERITY_PRIORITY == [high |-> 3, medium |-> 2, low |-> 1]

\* Comparisons of a number that may be NaN: every comparison with NaN is false.
JsLt(a, b) == a # NaN /\ a < b

JsGt(a, b) == a # NaN /\ a > b

\* Truthiness of a number | null | undefined.
Truthy(v) == v # Null /\ v # Undefined /\ v # NaN /\ v # 0

MkWeakness(category, issue, severity, detectedValue, lo, hi) ==
  << [category |-> category, issue |-> issue, severity |-> severity,
      detectedValue |-> detectedValue, optimalRange |-> [min |-> lo, max |-> hi]] >>

\* A plausible slip: the breakpoints taken inclusively (>= 0.45, >= 0.55).
Rule1Inclusive(contactMoment) ==
  IF Has(contactMoment) /\ Truthy(contactMoment[1].metrics.bodyHeight)
     /\ contactMoment[1].metrics.bodyHeight >= 45
    THEN MkWeakness("Arm Mechanics", "Low Contact Point",
           IF contactMoment[1].metrics.bodyHeight >= 55 THEN "high" ELSE "medium",
           contactMoment[1].metrics.bodyHeight, 25, 45)
    ELSE << >>

\* RULE 1: Low Contact Point
Rule1(contactMoment) ==
  IF Has(contactMoment) /\ Truthy(contactMoment[1].metrics.bodyHeight)
     /\ JsGt(contactMoment[1].metrics.bodyHeight, 45)
    THEN MkWeakness("Arm Mechanics", "Low Contact Point",
           IF JsGt(contactMoment[1].metrics.bodyHeight, 55) THEN "high" ELSE "medium",
           contactMoment[1].metrics.bodyHeight, 25, 45)
    ELSE << >>

\* A plausible slip: <= in place of < at the three elbow thresholds.
Rule2Inclusive(contactMoment) ==
  IF Has(contactMoment)
     /\ contactMoment[1].metrics.elbowAngle # Null
     /\ contactMoment[1].metrics.elbowAngle # Undefined
     /\ contactMoment[1].metrics.elbowAngle # NaN
     /\ contactMoment[1].metrics.elbowAngle <= 160
    THEN MkWeakness("Arm Mechanics", "Incomplete Arm Extension",
           IF contactMoment[1].metrics.elbowAngle <= 150 THEN "high"
           ELSE IF contactMoment[1].metrics.elbowAngle <= 155 THEN "medium" ELSE "low",
           contactMoment[1].metrics.elbowAngle, 160, 175)
    ELSE << >>

\* RULE 2: Insufficient Arm Extension at Contact
Rule2(contactMoment) ==
  IF Has(contactMoment)
     /\ contactMoment[1].metrics.elbowAngle # Null
     /\ contactMoment[1].metrics.elbowAngle # Undefined
     /\ JsLt(contactMoment[1].metrics.elbowAngle, 160)
    THEN MkWeakness("Arm Mechanics", "Incomplete Arm Extension",
           IF JsLt(contactMoment[1].metrics.elbowAngle, 150) THEN "high"
           ELSE IF JsLt(contactMoment[1].metrics.elbowAngle, 155) THEN "medium" ELSE "low",
           contactMoment[1].metrics.elbowAngle, 160, 175)
    ELSE << >>

\* RULE 3: Overall Low Elbow Angles (Poor Arm Cocking)
Rule3(metrics) ==
  IF metrics.minElbowAngle # Null /\ JsGt(metrics.minElbowAngle, 100)
    THEN MkWeakness("Arm Mechanics", "Insufficient Arm Cocking",
           IF JsGt(metrics.minElbowAngle, 120) THEN "high" ELSE "medium",
           metrics.minElbowAngle, 60, 100)
    ELSE << >>

\* RULE 4: Limited Arm Extension Range (no null test in the source)
Rule4(metrics) ==
  IF JsLt(metrics.armExtensionRange.range, 25)
    THEN MkWeakness("Arm Mechanics", "Limited Arm Extension Range",
           IF JsLt(metrics.armExtensionRange.range, 20) THEN "high" ELSE "medium",
           metrics.armExtensionRange.range, 25, 50)
    ELSE << >>

\* RULE 5: Low Peak Velocity
Rule5(metrics) ==
  IF JsLt(metrics.peakVelocity, 80)
    THEN MkWeakness("Power Generation", "Low Hand Speed",
           IF JsLt(metrics.peakVelocity, 50) THEN "high" ELSE "medium",
           metrics.peakVelocity, 80, 200)
    ELSE << >>

\* RULE 6: Velocity Not at Contact Point (times in milliseconds)
Rule6(peakVelocityMoment, contactMoment) ==
  IF Has(peakVelocityMoment) /\ Has(contactMoment)
    THEN LET timeDifference == Abs(peakVelocityMoment[1].timestamp - contactMoment[1].timestamp)
         IN IF timeDifference > 150
              THEN MkWeakness("Timing", "Poor Velocity Timing",
                     IF timeDifference > 250 THEN "high" ELSE "medium",
                     timeDifference, 0, 100)
              ELSE << >>
    ELSE << >>

\* RULE 7: Insufficient Vertical Movement (Jump Height)
Rule7(metrics) ==
  IF metrics.jumpHeight # Null /\ JsLt(metrics.jumpHeight, 8)
    THEN MkWeakness("Power Generation", "Limited Vertical Jump",
           IF JsLt(metrics.jumpHeight, 5) THEN "medium" ELSE "low",
           metrics.jumpHeight, 8, 25)
    ELSE << >>

\* RULE 8: Poor Posture (Excessive Forward Lean)
Rule8(metrics) ==
  IF metrics.averageTorsoAngle # Null /\ JsGt(metrics.averageTorsoAngle, 25)
    THEN MkWeakness("Body Positioning", "Excessive Forward Lean",
           IF JsGt(metrics.averageTorsoAngle, 35) THEN "high" ELSE "medium",
           metrics.averageTorsoAngle, 0, 20)
    ELSE << >>

\* RULE 9: Slow Acceleration Phase
Rule9(accelerationPhase) ==
  IF Has(accelerationPhase) /\ accelerationPhase[1].duration > 600
    THEN MkWeakness("Timing", "Slow Acceleration Phase",
           IF accelerationPhase[1].duration > 800 THEN "medium" ELSE "low",
           accelerationPhase[1].duration, 200, 500)
    ELSE << >>

\* RULE 10: Long Preparation Phase
Rule10(preparationPhase) ==
  IF Has(preparationPhase) /\ preparationPhase[1].duration > 1200
    THEN MkWeakness("Timing", "Prolonged Preparation", "low",
           preparationPhase[1].duration, 300, 1000)
    ELSE << >>

\* RULE 11: Low Average Velocity During Acceleration
Rule11(accelerationPhase) ==
  IF Has(accelerationPhase) /\ accelerationPhase[1].avgVelocity < 40
    THEN MkWeakness("Power Generation", "Weak Acceleration",
           IF accelerationPhase[1].avgVelocity < 30 THEN "high" ELSE "medium",
           accelerationPhase[1].avgVelocity, 50, 150)
    ELSE << >>

\* RULE 12: Shoulder Angle Issues
Rule12(metrics) ==
  IF metrics.maxShoulderAngle # Null /\ JsLt(metrics.maxShoulderAngle, 120)
    THEN MkWeakness("Shoulder Mechanics", "Limited Shoulder Range",
           IF JsLt(metrics.maxShoulderAngle, 100) THEN "high" ELSE "medium",
           metrics.maxShoulderAngle, 130, 180)
    ELSE << >>

\* A plausible slip: the final sort is missing (rule order is returned).
SortBySeverityMissing(ws) == ws

\* A plausible slip: an unstable sort that hands back weaknesses of equal
\* severity in reverse push order.
SortBySeverityTiesReversed(ws) ==
  StableSort([i \in 1..Len(ws) |-> ws[Len(ws) + 1 - i]],
             LAMBDA a, b : SEVERITY_PRIORITY[b.severity] - SEVERITY_PRIORITY[a.severity] < 0)

\* weaknesses.sort((a, b) => SEVERITY_PRIORITY[b.severity] - SEVERITY_PRIORITY[a.severity])
SortBySeverity(ws) ==
  StableSort(ws, LAMBDA a, b : SEVERITY_PRIORITY[b.severity] - SEVERITY_PRIORITY[a.severity] < 0)

DetectWeaknesses(metrics, phs, moments) ==
  LET contactMoment == Find(moments, LAMBDA m : m.label = "Maximum Extension")
      peakVelocityMoment == Find(moments, LAMBDA m : m.label = "Peak Velocity")
      preparationPhase == Find(phs, LAMBDA p : p.name = "Preparation")
      accelerationPhase == Find(phs, LAMBDA p : p.name = "Acceleration")
  IN SortBySeverity(
       Rule1(contactMoment) \o Rule2(contactMoment) \o Rule3(metrics) \o Rule4(metrics)
       \o Rule5(metrics) \o Rule6(peakVelocityMoment, contactMoment) \o Rule7(metrics)
       \o Rule8(metrics) \o Rule9(accelerationPhase) \o Rule10(preparationPhase)
       \o Rule11(accelerationPhase) \o Rule12(metrics))

----------------------------------------------------------------------------
(* data/drills.ts and the drill matcher (drillRecommendations) *)

\* The drill catalog, in file order (id, category, difficulty; the
\* descriptive fields are left out).
DRILL_DATABASE ==
  << 
     [id |-> "wall_touches", category |-> "Arm Mechanics", difficulty |-> "beginner"],
     [id |-> "medicine_ball_throws", category |-> "Arm Mechanics", difficulty |-> "intermediate"],
     [id |-> "resistance_band_extensions", category |-> "Arm Mechanics", difficulty |-> "beginner"],
     [id |-> "platform_hitting", category |-> "Arm Mechanics", difficulty |-> "intermediate"],
     [id |-> "hip_rotation_throws", category |-> "Power Generation", difficulty |-> "intermediate"],
     [id |-> "approach_jumps", category |-> "Power Generation", difficulty |-> "intermediate"],
     [id |-> "box_jumps", category |-> "Power Generation", difficulty |-> "intermediate"],
     [id |-> "kettlebell_swings", category |-> "Power Generation", difficulty |-> "advanced"],
     [id |-> "ball_drop_hits", category |-> "Timing", difficulty |-> "beginner"],
     [id |-> "self_toss_hitting", category |-> "Timing", difficulty |-> "beginner"],
     [id |-> "rhythm_approaches", category |-> "Timing", difficulty |-> "beginner"],
     [id |-> "core_rotation_exercises", category |-> "Body Positioning", difficulty |-> "beginner"],
     [id |-> "plank_variations", category |-> "Body Positioning", difficulty |-> "beginner"],
     [id |-> "balance_single_leg", category |-> "Body Positioning", difficulty |-> "beginner"],
     [id |-> "shoulder_circles", category |-> "Shoulder Mechanics", difficulty |-> "beginner"],
     [id |-> "arm_swing_practice", category |-> "Shoulder Mechanics", difficulty |-> "beginner"],
     [id |-> "controlled_follow_through", category |-> "Follow-Through", difficulty |-> "intermediate"],
     [id |-> "eccentric_arm_strengthening", category |-> "Follow-Through", difficulty |-> "intermediate"],
     [id |-> "repetitive_hitting", category |-> "Consistency", difficulty |-> "intermediate"],
     [id |-> "target_hitting", category |-> "Consistency", difficulty |-> "intermediate"],
     [id |-> "plyometric_hitting", category |-> "Power Generation", difficulty |-> "advanced"],
     [id |-> "weighted_ball_training", category |-> "Power Generation", difficulty |-> "advanced"],
     [id |-> "live_game_simulation", category |-> "Consistency", difficulty |-> "advanced"] >>

WEAKNESS_TO_CATEGORY_MAP ==
  ("Low Contact Point" :> << "Arm Mechanics", "Power Generation" >>)
  @@ ("Incomplete Arm Extension" :> << "Arm Mechanics", "Shoulder Mechanics" >>)
  @@ ("Insufficient Arm Cocking" :> << "Arm Mechanics", "Shoulder Mechanics" >>)
  @@ ("Limited Arm Extension Range" :> << "Arm Mechanics", "Shoulder Mechanics" >>)
  @@ ("Low Hand Speed" :> << "Power Generation", "Arm Mechanics" >>)
  @@ ("Poor Velocity Timing" :> << "Timing", "Consistency" >>)
  @@ ("Limited Vertical Jump" :> << "Power Generation" >>)
  @@ ("Excessive Forward Lean" :> << "Body Positioning", "Consistency" >>)
  @@ ("Slow Acceleration Phase" :> << "Timing", "Power Generation" >>)
  @@ ("Prolonged Preparation" :> << "Timing", "Consistency" >>)
  @@ ("Weak Acceleration" :> << "Power Generation", "Arm Mechanics" >>)
  @@ ("Limited Shoulder Range" :> << "Shoulder Mechanics", "Arm Mechanics" >>)

WEAKNESS_TO_DRILL_MAP ==
  ("Low Contact Point" :> << "wall_touches", "platform_hitting", "box_jumps", "approach_jumps" >>)
  @@ ("Incomplete Arm Extension" :> << "resistance_band_extensions", "wall_touches", "medicine_ball_throws", "arm_swing_practice" >>)
  @@ ("Insufficient Arm Cocking" :> << "arm_swing_practice", "shoulder_circles", "resistance_band_extensions", "medicine_ball_throws" >>)
  @@ ("Limited Arm Extension Range" :> << "shoulder_circles", "arm_swing_practice", "wall_touches", "medicine_ball_throws" >>)
  @@ ("Low Hand Speed" :> << "medicine_ball_throws", "hip_rotation_throws", "box_jumps", "kettlebell_swings" >>)
  @@ ("Poor Velocity Timing" :> << "ball_drop_hits", "self_toss_hitting", "rhythm_approaches", "repetitive_hitting" >>)
  @@ ("Limited Vertical Jump" :> << "box_jumps", "approach_jumps", "plyometric_hitting", "kettlebell_swings" >>)
  @@ ("Excessive Forward Lean" :> << "core_rotation_exercises", "plank_variations", "balance_single_leg", "arm_swing_practice" >>)
  @@ ("Slow Acceleration Phase" :> << "medicine_ball_throws", "hip_rotation_throws", "rhythm_approaches", "ball_drop_hits" >>)
  @@ ("Prolonged Preparation" :> << "rhythm_approaches", "self_toss_hitting", "ball_drop_hits", "repetitive_hitting" >>)
  @@ ("Weak Acceleration" :> << "medicine_ball_throws", "hip_rotation_throws", "resistance_band_extensions", "kettlebell_swings" >>)
  @@ ("Limited Shoulder Range" :> << "shoulder_circles", "arm_swing_practice", "resistance_band_extensions", "medicine_ball_throws" >>)

\* The drill catalog the matcher reads: DRILL_DATABASE as imported from
\* data/drills.ts.  It is state so that runs can be started with a catalog
\* from which entries have been removed, the case the `if (drill)` guard of
\* selectDrillsForWeakness is written for.
VARIABLE catalog

\* DRILL_DATABASE.find(d => d.id === drillId) for each id, misses dropped.
RECURSIVE LookupDrills(_)
LookupDrills(drillIds) ==
  IF drillIds = << >> THEN << >>
  ELSE Find(catalog, LAMBDA d : d.id = Head(drillIds)) \o LookupDrills(Tail(drillIds))

\* A plausible slip: the existence check comes before the cut, so a listed
\* id missing from the catalog is replaced by the next listed id.
SpecificDrillsFirstExisting(weakness) ==
  IF weakness.issue \in DOMAIN WEAKNESS_TO_DRILL_MAP
    THEN Slice(LookupDrills(WEAKNESS_TO_DRILL_MAP[weakness.issue]), 3)
    ELSE << >>

\* Strategy 1: of the first three listed ids, those that exist in the catalog.
SpecificDrills(weakness) ==
  IF weakness.issue \in DOMAIN WEAKNESS_TO_DRILL_MAP
    THEN LookupDrills(Slice(WEAKNESS_TO_DRILL_MAP[weakness.issue], 3))
    ELSE << >>

InSeq(s, v) == \E i \in 1..Len(s) : s[i] = v

HasDrill(drills, id) == \E i \in 1..Len(drills) : drills[i].id = id

\* A plausible slip: a beginner drill is added whatever was found by id, and
\* every remaining slot is filled with unused category matches.
CategoryFallbackFill(weakness, drills) ==
  LET categories == IF weakness.issue \in DOMAIN WEAKNESS_TO_CATEGORY_MAP
                      THEN WEAKNESS_TO_CATEGORY_MAP[weakness.issue]
                      ELSE << weakness.category >>
      categoryDrills == Filter(catalog,
                          LAMBDA d : InSeq(categories, d.category) /\ ~HasDrill(drills, d.id))
      beginnerDrills == Filter(categoryDrills, LAMBDA d : d.difficulty = "beginner")
      intermediateDrills == Filter(categoryDrills, LAMBDA d : d.difficulty = "intermediate")
      d1 == IF Len(beginnerDrills) > 0 THEN Append(drills, beginnerDrills[1]) ELSE drills
      d2 == IF Len(intermediateDrills) > 0 THEN Append(d1, intermediateDrills[1]) ELSE d1
      remaining == Filter(categoryDrills, LAMBDA d : ~HasDrill(d2, d.id))
  IN d2 \o remaining

\* Strategy 2: the category fallback, from the drills chosen so far.
CategoryFallback(weakness, drills) ==
  LET categories == IF weakness.issue \in DOMAIN WEAKNESS_TO_CATEGORY_MAP
                      THEN WEAKNESS_TO_CATEGORY_MAP[weakness.issue]
                      ELSE << weakness.category >>
      categoryDrills == Filter(catalog,
                          LAMBDA d : InSeq(categories, d.category) /\ ~HasDrill(drills, d.id))
      beginnerDrills == Filter(categoryDrills, LAMBDA d : d.difficulty = "beginner")
      intermediateDrills == Filter(categoryDrills, LAMBDA d : d.difficulty = "intermediate")
      d1 == IF Len(drills) = 0 /\ Len(beginnerDrills) > 0
              THEN Append(drills, beginnerDrills[1]) ELSE drills
      d2 == IF Len(d1) < 3 /\ Len(intermediateDrills) > 0
              THEN Append(d1, intermediateDrills[1]) ELSE d1
      remaining == Filter(categoryDrills, LAMBDA d : ~HasDrill(d2, d.id))
  IN IF Len(d2) < 3 /\ Len(categoryDrills) > 0 /\ Len(remaining) > 0
       THEN Append(d2, remaining[1]) ELSE d2

\* A plausible slip: an off-by-one cut, two drills per weakness.
SelectDrillsForWeaknessTwo(weakness) ==
  LET specific == SpecificDrills(weakness)
      drills == IF Len(specific) < 3 THEN CategoryFallback(weakness, specific) ELSE specific
  IN Slice(drills, 2)

SelectDrillsForWeakness(weakness) ==
  LET specific == SpecificDrills(weakness)
      drills == IF Len(specific) < 3 THEN CategoryFallback(weakness, specific) ELSE specific
  IN Slice(drills, 3)

\* A plausible slip: every weakness is processed, not only the first five.
TopWeaknessesAll(ws) == ws

\* A plausible slip: an off-by-one cut, six weaknesses processed.
TopWeaknessesSix(ws) == Slice(ws, 6)

\* weaknesses.slice(0, 5)
TopWeaknesses(ws) == Slice(ws, 5)

\* The forEach body of generateDrillRecommendations for topWeaknesses[index]
\* (index is 1-based here, so priority is index).
RecommendationAt(topWeaknesses, index) ==
  LET recommendedDrills == SelectDrillsForWeakness(topWeaknesses[index])
  IN IF Len(recommendedDrills) > 0
       THEN << [weakness |-> topWeaknesses[index],
                recommendedDrills |-> recommendedDrills,
                priority |-> index] >>
       ELSE << >>

RECURSIVE RecommendationsFrom(_, _)
RecommendationsFrom(topWeaknesses, index) ==
  IF index > Len(topWeaknesses) THEN << >>
  ELSE RecommendationAt(topWeaknesses, index) \o RecommendationsFrom(topWeaknesses, index + 1)

\* A plausible slip: priority counts the recommendations pushed so far, so
\* a weakness without drills shifts the later priorities down.
GenerateDrillRecommendationsRenumbered(ws) ==
  LET recs == RecommendationsFrom(TopWeaknesses(ws), 1)
  IN [i \in 1..Len(recs) |-> [recs[i] EXCEPT !.priority = i]]

GenerateDrillRecommendations(ws) == RecommendationsFrom(TopWeaknesses(ws), 1)

----------------------------------------------------------------------------
(* movementAnalyzer.ts: the report *)

\* generateMovementReport (metadata copies and the insight strings left out).
GenerateMovementReport(analysis, options) ==
  LET o == MergeOptions(options)
      velocityData == CalculateVelocityTimeline(analysis.frames, o)
      angleData == CalculateAngleTimeline(analysis.frames)
      keyMoments == DetectKeyMoments(analysis.frames, velocityData)
  IN [analysisFrames |-> Len(analysis.frames),
      keyMetrics |-> CalculateKeyMetrics(analysis.frames, velocityData, angleData),
      phases |-> DetectMovementPhases(analysis.frames, velocityData, keyMoments),
      keyMoments |-> keyMoments,
      timelineData |-> [velocities |-> velocityData, angles |-> angleData]]

----------------------------------------------------------------------------
(* The engine as a state machine: one batch pass over a frame list. *)

VARIABLES
  pc,            \* "frames", "report", "weaknesses" or "done"; "replay" on the replay screen
  video,         \* the AnalysisResult handed to the engine
  opts,          \* the AnalysisOptions handed to the engine
  report,        \* the MovementReport parts, once generated
  weaknessList,  \* detectWeaknesses' result
  drillRecs,     \* generateDrillRecommendations' result
  currentFrame,  \* useVideoSync: the FrameData on display, if any
  playbackState, \* useVideoSync: the PlaybackState
  playbackRefs,  \* useVideoSync: isPlayingRef, playbackSpeedRef, playbackStartPositionRef
  isSeekingRef,  \* useVideoSync: the seeking flag
  seeks,         \* the handleSeek calls so far and where each one stands
  timers         \* the pending 100 ms release timers, oldest first

hookVars == << currentFrame, playbackState, playbackRefs, isSeekingRef, seeks, timers >>

vars == << pc, video, opts, report, weaknessList, drillRecs, catalog, hookVars >>

\* useState / useRef initial values of useVideoSync; no handleSeek call yet.
HookInit ==
  /\ currentFrame = None
  /\ playbackState = [isPlaying |-> FALSE, currentFrame |-> 0, currentTime |-> 0,
                      speed |-> 1, duration |-> 0]
  /\ playbackRefs = [isPlaying |-> FALSE, playbackSpeed |-> 1, playbackStartPosition |-> 0]
  /\ isSeekingRef = FALSE
  /\ seeks = << >>
  /\ timers = << >>

RunGenerateMovementReport ==
  /\ pc = "frames"
  /\ report' = GenerateMovementReport(video, opts)
  /\ pc' = "report"
  /\ UNCHANGED << video, opts, weaknessList, drillRecs, catalog, hookVars >>

RunDetectWeaknesses ==
  /\ pc = "report"
  /\ weaknessList' = DetectWeaknesses(report.keyMetrics, report.phases, report.keyMoments)
  /\ pc' = "weaknesses"
  /\ UNCHANGED << video, opts, report, drillRecs, catalog, hookVars >>

RunGenerateDrillRecommendations ==
  /\ pc = "weaknesses"
  /\ drillRecs' = GenerateDrillRecommendations(weaknessList)
  /\ pc' = "done"
  /\ UNCHANGED << video, opts, report, weaknessList, catalog, hookVars >>

Next ==
  \/ RunGenerateMovementReport
  \/ RunDetectWeaknesses
  \/ RunGenerateDrillRecommendations

----------------------------------------------------------------------------
(* Inputs of the engine run: frame lists built from a small catalog of     *)
(* poses.  Coordinates in hundredths; image y grows downwards.             *)

MaxFrames == 3

Kp(id, x, y, z, visibility) == [id |-> id, x |-> x, y |-> y, z |-> z, visibility |-> visibility]

\* Arm cocked: elbow angle 90 degrees, every landmark confident.
PoseCocked ==
  << Kp(11, 40, 30, 0, 90), Kp(12, 60, 30, 0, 90), Kp(14, 70, 30, 0, 90),
     Kp(16, 70, 20, 0, 90), Kp(23, 42, 60, 0, 90), Kp(24, 58, 60, 0, 90) >>

\* Arm extended overhead, body higher in the image.
PoseExtended ==
  << Kp(11, 40, 25, 0, 90), Kp(12, 60, 25, 0, 90), Kp(14, 60, 12, 0, 90),
     Kp(16, 60, 0, 0, 90), Kp(23, 42, 50, 0, 90), Kp(24, 58, 50, 0, 90) >>

\* Wrist confident at 0.6 only: above the helpers' 0.5, below a caller's 0.8.
PoseWristDim ==
  << Kp(11, 40, 30, 0, 90), Kp(12, 60, 30, 0, 90), Kp(14, 70, 30, 0, 90),
     Kp(16, 80, 30, 0, 60), Kp(23, 42, 60, 0, 90), Kp(24, 58, 60, 0, 90) >>

\* Wrist below every threshold; torso leaning.
PoseWristHidden ==
  << Kp(11, 60, 30, 0, 90), Kp(12, 80, 30, 0, 90), Kp(14, 90, 30, 0, 90),
     Kp(16, 90, 20, 0, 30), Kp(23, 42, 60, 0, 90), Kp(24, 58, 60, 0, 90) >>

\* Only the wrist was detected.
PoseWristOnly == << Kp(16, 50, 50, 0, 90) >>

\* Subject not detected.
PoseNone == << >>

EnginePoses ==
  { PoseCocked, PoseExtended, PoseWristDim, PoseWristHidden, PoseWristOnly, PoseNone }

\* Time between consecutive frames, in milliseconds (0: equal timestamps).
EngineSteps == { 0, 100 }

\* options.minVisibility: left out, 0, or 0.8
EngineOptions == { [minVisibility |-> Undefined], [minVisibility |-> 0], [minVisibility |-> 80] }

\* The frame list with the given poses, first frame number and per-frame
\* increments of frame_number (df) and timestamp (dt).
RECURSIVE BuildFrames(_, _, _, _, _)
BuildFrames(poses, df, dt, number, time) ==
  IF poses = << >> THEN << >>
  ELSE << [frame_number |-> number, timestamp |-> time, keypoints |-> Head(poses)] >>
       \o (IF Len(poses) = 1 THEN << >>
           ELSE BuildFrames(Tail(poses), Tail(df), Tail(dt),
                            number + Head(df), time + Head(dt)))

NoReport == << >>

InitEngine ==
  /\ pc = "frames"
  /\ \E n \in 0..MaxFrames :
       \E poses \in [1..n -> EnginePoses] :
         \E dt \in [1..(IF n = 0 THEN 0 ELSE n - 1) -> EngineSteps] :
           video = [frames |-> BuildFrames(poses, [i \in 1..Len(dt) |-> 1], dt, 0, 0)]
  /\ opts \in EngineOptions
  /\ report = NoReport
  /\ weaknessList = << >>
  /\ drillRecs = << >>
  /\ catalog = DRILL_DATABASE
  /\ HookInit

Spec == InitEngine /\ [][Next]_vars

----------------------------------------------------------------------------
(* Inputs of the phase runs: longer frame lists, wrist-only poses, gaps    *)
(* in the frame numbering.                                                 *)

MaxPhaseFrames == 5

PoseWristA == << Kp(16, 50, 50, 0, 90) >>

PoseWristB == << Kp(16, 80, 10, 0, 90) >>

PhasePoses == { PoseWristA, PoseWristB, PoseNone }

\* Increments of frame_number between consecutive frames.
PhaseNumberSteps == { 1, 2 }

\* frame_number of the first frame.
PhaseFirstNumbers == { 0, 5 }

\* Milliseconds between consecutive frames (10 fps).
PhaseFrameTime == 1000 \div 10

InitPhases ==
  /\ pc = "frames"
  /\ \E n \in 0..MaxPhaseFrames :
       \E poses \in [1..n -> PhasePoses] :
         \E df \in [1..(IF n = 0 THEN 0 ELSE n - 1) -> PhaseNumberSteps] :
           \E first \in PhaseFirstNumbers :
             video = [frames |-> BuildFrames(poses, df, [i \in 1..Len(df) |-> PhaseFrameTime],
                                             first, 0)]
  /\ opts = [minVisibility |-> Undefined]
  /\ report = NoReport
  /\ weaknessList = << >>
  /\ drillRecs = << >>
  /\ catalog = DRILL_DATABASE
  /\ HookInit

SpecPhases == InitPhases /\ [][Next]_vars

----------------------------------------------------------------------------
(* Inputs of the rule-engine runs: detectWeaknesses on metrics, phases and *)
(* key moments that deviate from a weakness-free baseline in at most       *)
(* MaxDeviations places.                                                   *)

MaxDeviations == 3

BaseMetrics ==
  [peakVelocity |-> 100, peakVelocityFrame |-> 5, averageVelocity |-> 60,
   maxElbowAngle |-> 170, minElbowAngle |-> 90, maxShoulderAngle |-> 130,
   armExtensionRange |-> [min |-> 10, max |-> 40, range |-> 30],
   jumpHeight |-> 10, highestBodyPositionFrame |-> 5, lowestBodyPositionFrame |-> 0,
   averageTorsoAngle |-> 10, shoulderWidth |-> 20]

\* The alternatives of each input place; the baseline is none of them.
RuleAlternatives ==
  [contactHeight |-> << 45, 50, 55, 60 >>,
   contactElbow  |-> << Null, 145, 152, 158 >>,
   contactMoment |-> << 0 >>,                   \* no Maximum Extension moment
   peakTime      |-> << 650, 700, 800 >>,       \* contact is at 500 ms
   minElbow      |-> << Null, 110, 125 >>,
   extRange      |-> << 22, 10 >>,
   peakVelocity  |-> << 60, 40 >>,
   jumpHeight    |-> << Null, 6, 3 >>,
   torsoAngle    |-> << Null, 30, 40 >>,
   accelDuration |-> << 700, 900 >>,
   prepDuration  |-> << 1300 >>,
   accelAvg      |-> << 35, 20 >>,
   maxShoulder   |-> << Null, 110, 90 >>]

RulePlaces == DOMAIN RuleAlternatives

\* dev: a function from the deviating places to the index of the alternative.
Pick(dev, place, base) ==
  IF place \in DOMAIN dev THEN RuleAlternatives[place][dev[place]] ELSE base

RuleMetrics(dev) ==
  [BaseMetrics EXCEPT
     !.minElbowAngle = Pick(dev, "minElbow", 90),
     !.armExtensionRange = [min |-> 10, max |-> 10 + Pick(dev, "extRange", 30),
                            range |-> Pick(dev, "extRange", 30)],
     !.peakVelocity = Pick(dev, "peakVelocity", 100),
     !.jumpHeight = Pick(dev, "jumpHeight", 10),
     !.averageTorsoAngle = Pick(dev, "torsoAngle", 10),
     !.maxShoulderAngle = Pick(dev, "maxShoulder", 130)]

RulePhases(dev) ==
  << [name |-> "Preparation", startFrame |-> 0, endFrame |-> 3,
      duration |-> Pick(dev, "prepDuration", 800), avgVelocity |-> 30, maxVelocity |-> 50],
     [name |-> "Acceleration", startFrame |-> 4, endFrame |-> 5,
      duration |-> Pick(dev, "accelDuration", 400),
      avgVelocity |-> Pick(dev, "accelAvg", 60), maxVelocity |-> 100] >>

RuleMoments(dev) ==
  << [frame |-> 5, timestamp |-> Pick(dev, "peakTime", 500), label |-> "Peak Velocity",
      metrics |-> [NoMetrics EXCEPT !.velocity = 100, !.elbowAngle = 170,
                                    !.shoulderAngle = 130, !.armExtension = 40]] >>
  \o (IF "contactMoment" \in DOMAIN dev THEN << >>
      ELSE << [frame |-> 5, timestamp |-> 500, label |-> "Maximum Extension",
               metrics |-> [NoMetrics EXCEPT
                  !.armExtension = 40, !.velocity = 100,
                  !.elbowAngle = Pick(dev, "contactElbow", 170),
                  !.shoulderAngle = 130,
                  !.bodyHeight = Pick(dev, "contactHeight", Undefined)]] >>)

InitRules ==
  /\ pc = "report"
  /\ video = [frames |-> << >>]
  /\ opts = [minVisibility |-> Undefined]
  /\ \E places \in SUBSET RulePlaces :
       /\ Cardinality(places) <= MaxDeviations
       /\ \E dev \in [places -> 1..4] :
            /\ \A q \in places : dev[q] <= Len(RuleAlternatives[q])
            /\ report = [analysisFrames |-> 0,
                         keyMetrics |-> RuleMetrics(dev),
                         phases |-> RulePhases(dev),
                         keyMoments |-> RuleMoments(dev),
                         timelineData |-> [velocities |-> << >>, angles |-> << >>]]
  /\ weaknessList = << >>
  /\ drillRecs = << >>
  /\ catalog = DRILL_DATABASE
  /\ HookInit

NextRules ==
  \/ RunDetectWeaknesses
  \/ RunGenerateDrillRecommendations

SpecRules == InitRules /\ [][NextRules]_vars

----------------------------------------------------------------------------
(* Inputs of the matcher runs: generateDrillRecommendations on any list    *)
(* of weaknesses, mapped or not.                                           *)

MaxWeaknesses == 6

WeaknessPool ==
  { [category |-> "Power Generation", issue |-> "Low Hand Speed", severity |-> "high",
     detectedValue |-> 40, optimalRange |-> [min |-> 80, max |-> 200]],
    [category |-> "Timing", issue |-> "Poor Velocity Timing", severity |-> "medium",
     detectedValue |-> 200, optimalRange |-> [min |-> 0, max |-> 100]],
    [category |-> "Timing", issue |-> "Prolonged Preparation", severity |-> "low",
     detectedValue |-> 1300, optimalRange |-> [min |-> 300, max |-> 1000]],
    \* an issue neither map knows, in a catalog category
    [category |-> "Follow-Through", issue |-> "Abrupt Follow-Through", severity |-> "medium",
     detectedValue |-> 10, optimalRange |-> [min |-> 20, max |-> 40]],
    \* an issue neither map knows, in a category without drills
    [category |-> "Footwork", issue |-> "Late Approach", severity |-> "low",
     detectedValue |-> 10, optimalRange |-> [min |-> 20, max |-> 40]] }

InitDrills ==
  /\ pc = "weaknesses"
  /\ video = [frames |-> << >>]
  /\ opts = [minVisibility |-> Undefined]
  /\ report = NoReport
  /\ \E n \in 0..MaxWeaknesses : weaknessList \in [1..n -> WeaknessPool]
  /\ drillRecs = << >>
  /\ catalog = DRILL_DATABASE
  /\ HookInit

NextDrills == RunGenerateDrillRecommendations

SpecDrills == InitDrills /\ [][NextDrills]_vars

----------------------------------------------------------------------------


(* Properties *)

ReportReady == pc \in { "report", "weaknesses", "done" }

WeaknessesReady == pc \in { "weaknesses", "done" }

\* frame_number grows by exactly 1 from each frame to the next.
ConsecutiveNumbers(frames) ==
  \A i \in 2..Len(frames) : frames[i].frame_number = frames[i - 1].frame_number + 1

PhaseNames == << "Preparation", "Acceleration", "Contact", "Follow-through" >>

PhaseIndex(name) == CHOOSE k \in 1..4 : PhaseNames[k] = name

\* The phases cover [first, last] with each endFrame + 1 the next startFrame.
Partitions(phs, first, last) ==
  /\ Len(phs) > 0
  /\ phs[1].startFrame = first
  /\ phs[Len(phs)].endFrame = last
  /\ \A i \in 1..(Len(phs) - 1) : phs[i].endFrame + 1 = phs[i + 1].startFrame

HasPhase(phs, name) == \E i \in 1..Len(phs) : phs[i].name = name

----------------------------------------------------------------------------

Rank(w) == SEVERITY_PRIORITY[w.severity]

\* The 1-based number of the rule that emits the issue.
RuleIssues ==
  << "Low Contact Point", "Incomplete Arm Extension", "Insufficient Arm Cocking",
     "Limited Arm Extension Range", "Low Hand Speed", "Poor Velocity Timing",
     "Limited Vertical Jump", "Excessive Forward Lean", "Slow Acceleration Phase",
     "Prolonged Preparation", "Weak Acceleration", "Limited Shoulder Range" >>

RuleNumber(issue) == CHOOSE k \in 1..Len(RuleIssues) : RuleIssues[k] = issue

\* C2: the list returned by detectWeaknesses is non-increasing in severity
\* rank (high = 3, medium = 2, low = 1): no weakness is followed by one of
\* strictly higher severity.
C2_SeverityNonIncreasing ==
  WeaknessesReady =>
    \A i \in 1..Len(weaknessList) : \A j \in 1..Len(weaknessList) :
      i < j => Rank(weaknessList[i]) >= Rank(weaknessList[j])

\* A result the sort had to reorder: a later rule's weakness of higher
\* severity stands before an earlier rule's weakness.
C2_Witness ==
  /\ WeaknessesReady
  /\ \E i \in 1..Len(weaknessList) : \E j \in 1..Len(weaknessList) :
       /\ i < j
       /\ Rank(weaknessList[i]) > Rank(weaknessList[j])
       /\ RuleNumber(weaknessList[i].issue) > RuleNumber(weaknessList[j].issue)

\* C3: generateDrillRecommendations returns at most 5 recommendations, every
\* recommendation has between 1 and 3 recommendedDrills, and a weakness for
\* which no drill is found produces no recommendation.
C3_DrillCap ==
  pc = "done" =>
    /\ Len(drillRecs) <= 5
    /\ \A i \in 1..Len(drillRecs) : Len(drillRecs[i].recommendedDrills) \in 1..3
    /\ \A k \in 1..Min2(5, Len(weaknessList)) :
         Len(SelectDrillsForWeakness(weaknessList[k])) = 0
           => \A i \in 1..Len(drillRecs) : drillRecs[i].priority # k

\* Six or more weaknesses, one without drills among the first five, and
\* recommendations of two and of three drills.
C3_Witness ==
  /\ pc = "done"
  /\ Len(weaknessList) >= 6
  /\ \E k \in 1..5 : weaknessList[k].category = "Footwork"
  /\ \E i \in 1..Len(drillRecs) : Len(drillRecs[i].recommendedDrills) = 2
  /\ \E i \in 1..Len(drillRecs) : Len(drillRecs[i].recommendedDrills) = 3

SeveritySorted(ws) ==
  \A i \in 1..Len(ws) : \A j \in 1..Len(ws) : i < j => Rank(ws[i]) >= Rank(ws[j])

\* C4: given a severity-sorted weakness list of 6 or more entries, every
\* recommendation's weakness is the entry of the list at its priority, one of
\* the first five, and an entry from the 6th on (that is not also among the
\* first five) appears in no recommendation.
C4_OnlyTopFive ==
  (pc = "done" /\ Len(weaknessList) >= 6 /\ SeveritySorted(weaknessList)) =>
    /\ \A i \in 1..Len(drillRecs) :
         /\ drillRecs[i].priority \in 1..5
         /\ drillRecs[i].weakness = weaknessList[drillRecs[i].priority]
    /\ \A k \in 6..Len(weaknessList) :
         (\A m \in 1..5 : weaknessList[m] # weaknessList[k])
           => \A i \in 1..Len(drillRecs) : drillRecs[i].weakness # weaknessList[k]

\* A sorted list of six whose 6th entry has drills of its own and differs
\* from the five before it, all five of which are recommended.
C4_Witness ==
  /\ pc = "done"
  /\ Len(weaknessList) = 6
  /\ SeveritySorted(weaknessList)
  /\ \A m \in 1..5 : weaknessList[m] # weaknessList[6]
  /\ Len(SelectDrillsForWeakness(weaknessList[6])) > 0
  /\ Len(drillRecs) = 5

----------------------------------------------------------------------------

Neutral(v) == v = 0 \/ v = Null

\* Every field of the KeyMetrics record is 0 or null.
AllNeutral(m) ==
  /\ Neutral(m.peakVelocity) /\ Neutral(m.peakVelocityFrame) /\ Neutral(m.averageVelocity)
  /\ Neutral(m.maxElbowAngle) /\ Neutral(m.minElbowAngle) /\ Neutral(m.maxShoulderAngle)
  /\ Neutral(m.armExtensionRange.min) /\ Neutral(m.armExtensionRange.max)
  /\ Neutral(m.armExtensionRange.range)
  /\ Neutral(m.jumpHeight) /\ Neutral(m.highestBodyPositionFrame)
  /\ Neutral(m.lowestBodyPositionFrame)
  /\ Neutral(m.averageTorsoAngle) /\ Neutral(m.shoulderWidth)

\* C5: for a frame list of length 0 or 1 the engine yields an empty phase
\* list, an empty key-moment list, an empty weakness list, and a KeyMetrics
\* record whose every field is neutral (0 or null).
C5_EmptyInputNeutral ==
  (WeaknessesReady /\ Len(video.frames) <= 1)
    => /\ report.phases = << >>
       /\ report.keyMoments = << >>
       /\ weaknessList = << >>
       /\ AllNeutral(report.keyMetrics)

\* The wrist keypoints of the pose catalog.
EngineWrists ==
  UNION { { FindKeypoint(kps, 16)[1] } : kps \in { q \in EnginePoses : Has(FindKeypoint(q, 16)) } }

\* The index of the frame a velocity point was computed for (frame numbers
\* are distinct in the engine runs).
FrameIndexOf(frames, number) == CHOOSE i \in 1..Len(frames) : frames[i].frame_number = number

\* C7: calculateVelocity returns exactly 0 whenever deltaTime is 0, for every
\* pair of points, equal or not; so two consecutive frames with equal
\* timestamps contribute a velocity point of 0, and no velocity of the
\* timeline is NaN or Infinity.
C7_ZeroDurationVelocity ==
  /\ \A p \in EngineWrists : \A q \in EngineWrists : CalculateVelocity(p, q, 0) = 0
  /\ ReportReady =>
       \A k \in 1..Len(report.timelineData.velocities) :
         LET v == report.timelineData.velocities[k]
             i == FrameIndexOf(video.frames, v.frame)
         IN /\ v.velocity \in Nat
            /\ v.velocity < Infinity
            /\ video.frames[i].timestamp = video.frames[i - 1].timestamp => v.velocity = 0

\* A velocity point of 0 for two frames with equal timestamps whose wrists
\* are at different places.
C7_Witness ==
  /\ ReportReady
  /\ \E k \in 1..Len(report.timelineData.velocities) :
       LET v == report.timelineData.velocities[k]
           i == FrameIndexOf(video.frames, v.frame)
       IN /\ video.frames[i].timestamp = video.frames[i - 1].timestamp
          /\ CalculateDistance(FindKeypoint(video.frames[i - 1].keypoints, 16)[1],
                               FindKeypoint(video.frames[i].keypoints, 16)[1]) > 0
          /\ v.velocity = 0

\* The weaknesses of the list with the given issue.
WithIssue(ws, issue) == { i \in 1..Len(ws) : ws[i].issue = issue }

\* The contact moment detectWeaknesses reads: the first Maximum Extension.
ContactMomentOf(moments) == Find(moments, LAMBDA m : m.label = "Maximum Extension")

\* C8: when the contact moment carries a bodyHeight y, detectWeaknesses emits
\* exactly one Low Contact Point weakness iff y > 0.45 (none otherwise), of
\* severity high iff y > 0.55 and medium otherwise.
C8_LowContactPoint ==
  (WeaknessesReady /\ Has(ContactMomentOf(report.keyMoments))
     /\ ContactMomentOf(report.keyMoments)[1].metrics.bodyHeight \in Nat)
    => LET y == ContactMomentOf(report.keyMoments)[1].metrics.bodyHeight
           hits == WithIssue(weaknessList, "Low Contact Point")
       IN /\ Cardinality(hits) = (IF y > 45 THEN 1 ELSE 0)
          /\ \A i \in hits : weaknessList[i].severity = (IF y > 55 THEN "high" ELSE "medium")
          /\ \A i \in hits : weaknessList[i].detectedValue = y

\* y = 0.55: above 0.45, not above 0.55, so one weakness of severity medium.
C8_Witness ==
  /\ WeaknessesReady
  /\ Has(ContactMomentOf(report.keyMoments))
  /\ ContactMomentOf(report.keyMoments)[1].metrics.bodyHeight = 55
  /\ \E i \in 1..Len(weaknessList) :
       weaknessList[i].issue = "Low Contact Point" /\ weaknessList[i].severity = "medium"

----------------------------------------------------------------------------

\* No frame yields a value for the per-frame measure.
NoneMeasured(frames, Measure(_)) ==
  \A i \in 1..Len(frames) : Measure(frames[i].keypoints) = Null

\* The angle timeline holds no angle for the joint.
NoAngles(angleData, joint) ==
  \A i \in 1..Len(angleData) : angleData[i].joint = joint => angleData[i].angle = Null

NoCentreOfMass(frames) ==
  \A i \in 1..Len(frames) : ~Has(CalculateBodyCenterOfMass(frames[i].keypoints))

\* The fields of calculateKeyMetrics other than the arm-extension range:
\* velocity fields 0, angle and position fields null, each when its own
\* source population is empty.
EmptyPopulationsNeutral(m, frames, velocityData, angleData) ==
  /\ Len(velocityData) = 0
       => m.peakVelocity = 0 /\ m.averageVelocity = 0 /\ m.peakVelocityFrame = 0
  /\ NoAngles(angleData, "Right Elbow")
       => m.maxElbowAngle = Null /\ m.minElbowAngle = Null
  /\ NoAngles(angleData, "Right Shoulder") => m.maxShoulderAngle = Null
  /\ NoCentreOfMass(frames)
       => /\ m.jumpHeight = Null
          /\ m.highestBodyPositionFrame = Null
          /\ m.lowestBodyPositionFrame = Null
  /\ NoneMeasured(frames, CalculateTorsoAngle) => m.averageTorsoAngle = Null
  /\ NoneMeasured(frames, CalculateShoulderWidth) => m.shoulderWidth = Null

HasMoment(moments, label) == \E i \in 1..Len(moments) : moments[i].label = label

\* C10: each key moment is detected independently of the others: Maximum
\* Extension is emitted whenever some frame has a non-null arm extension and
\* Peak Height whenever some frame has a centre of mass, even when the
\* velocity timeline is empty.
C10_MomentsIndependent ==
  ReportReady =>
    /\ ~NoneMeasured(video.frames, CalculateRightArmExtension)
         => HasMoment(report.keyMoments, "Maximum Extension")
    /\ ~NoCentreOfMass(video.frames)
         => HasMoment(report.keyMoments, "Peak Height")

----------------------------------------------------------------------------

\* The moments of the list with the given label.
MomentsLabelled(moments, label) ==
  { moments[i] : i \in { j \in 1..Len(moments) : moments[j].label = label } }

ExtensionAt(frames, i) == CalculateRightArmExtension(frames[i].keypoints)

ComAt(frames, i) == CalculateBodyCenterOfMass(frames[i].keypoints)

\* The Peak Velocity moment sits on the first velocity point that attains
\* the maximum velocity.
PeakVelocityEarliest(moments, velocityData) ==
  \A m \in MomentsLabelled(moments, "Peak Velocity") :
    \E k \in 1..Len(velocityData) :
      /\ velocityData[k].frame = m.frame
      /\ velocityData[k].velocity = m.metrics.velocity
      /\ \A j \in 1..Len(velocityData) : velocityData[j].velocity <= m.metrics.velocity
      /\ \A j \in 1..(k - 1) : velocityData[j].velocity < m.metrics.velocity

\* The Maximum Extension moment sits on the first frame that attains the
\* maximum arm extension.
MaxExtensionEarliest(moments, frames) ==
  \A m \in MomentsLabelled(moments, "Maximum Extension") :
    LET i == FrameIndexOf(frames, m.frame)
    IN /\ ExtensionAt(frames, i) = m.metrics.armExtension
       /\ \A j \in 1..Len(frames) :
            ExtensionAt(frames, j) # Null => ExtensionAt(frames, j) <= m.metrics.armExtension
       /\ \A j \in 1..(i - 1) :
            ExtensionAt(frames, j) # Null => ExtensionAt(frames, j) < m.metrics.armExtension

\* The Peak Height moment sits on the first frame that attains the minimum
\* centre-of-mass y.
PeakHeightEarliest(moments, frames) ==
  \A m \in MomentsLabelled(moments, "Peak Height") :
    LET i == FrameIndexOf(frames, m.frame)
    IN /\ Has(ComAt(frames, i)) /\ ComAt(frames, i)[1].y = m.metrics.bodyHeight
       /\ \A j \in 1..Len(frames) :
            Has(ComAt(frames, j)) => ComAt(frames, j)[1].y >= m.metrics.bodyHeight
       /\ \A j \in 1..(i - 1) :
            Has(ComAt(frames, j)) => ComAt(frames, j)[1].y > m.metrics.bodyHeight

\* C11: in detectKeyMoments, when several frames share the exactly equal
\* extreme value (maximum velocity, maximum arm extension or minimum
\* centre-of-mass y), the moment is placed on the earliest such frame in
\* input order.
C11_EarliestExtremeWins ==
  ReportReady =>
    /\ PeakVelocityEarliest(report.keyMoments, report.timelineData.velocities)
    /\ MaxExtensionEarliest(report.keyMoments, video.frames)
    /\ PeakHeightEarliest(report.keyMoments, video.frames)

\* A run in which each of the three extremes is attained by two frames.
C11_Witness ==
  /\ ReportReady
  /\ Len(video.frames) = 3
  /\ \E m \in MomentsLabelled(report.keyMoments, "Maximum Extension") :
       \E j \in 1..3 : /\ j > FrameIndexOf(video.frames, m.frame)
                       /\ ExtensionAt(video.frames, j) = m.metrics.armExtension
  /\ \E m \in MomentsLabelled(report.keyMoments, "Peak Height") :
       \E j \in 1..3 : /\ j > FrameIndexOf(video.frames, m.frame)
                       /\ Has(ComAt(video.frames, j))
                       /\ ComAt(video.frames, j)[1].y = m.metrics.bodyHeight
  /\ \E m \in MomentsLabelled(report.keyMoments, "Peak Velocity") :
       /\ m.metrics.velocity > 0
       /\ Cardinality({ k \in 1..Len(report.timelineData.velocities) :
            report.timelineData.velocities[k].velocity = m.metrics.velocity }) = 2

\* C12: the key-moment list returned by detectKeyMoments is sorted ascending
\* by frame.
C12_MomentsSortedByFrame ==
  ReportReady =>
    \A i \in 1..(Len(report.keyMoments) - 1) :
      report.keyMoments[i].frame <= report.keyMoments[i + 1].frame

\* The Peak Velocity moment, pushed first, lies on a later frame than the
\* Maximum Extension moment and comes after it in the result.
C12_Witness ==
  /\ ReportReady
  /\ \E i \in 1..Len(report.keyMoments) : \E j \in 1..Len(report.keyMoments) :
       /\ report.keyMoments[i].label = "Maximum Extension"
       /\ report.keyMoments[j].label = "Peak Velocity"
       /\ i < j
       /\ report.keyMoments[i].frame < report.keyMoments[j].frame

----------------------------------------------------------------------------

\* C13: among weaknesses of equal severity, the list returned by
\* detectWeaknesses keeps rule-evaluation order (rule 1 before rule 2 ...
\* before rule 12): the severity sort is stable.
C13_TiesKeepRuleOrder ==
  WeaknessesReady =>
    \A i \in 1..Len(weaknessList) : \A j \in 1..Len(weaknessList) :
      (i < j /\ Rank(weaknessList[i]) = Rank(weaknessList[j]))
        => RuleNumber(weaknessList[i].issue) < RuleNumber(weaknessList[j].issue)

\* Two weaknesses of equal severity in rule order, behind a weakness of
\* higher severity that a later rule pushed: the sort moved elements and
\* kept the tie in place.
C13_Witness ==
  /\ WeaknessesReady
  /\ \E h \in 1..Len(weaknessList) : \E i \in 1..Len(weaknessList) :
       \E j \in 1..Len(weaknessList) :
         /\ h < i /\ i < j
         /\ Rank(weaknessList[h]) > Rank(weaknessList[i])
         /\ Rank(weaknessList[i]) = Rank(weaknessList[j])
         /\ RuleNumber(weaknessList[h].issue) > RuleNumber(weaknessList[j].issue)

----------------------------------------------------------------------------

\* C14: every recommendation has priority equal to 1 + the index of its
\* weakness in the first five entries of the input list; priorities are
\* strictly increasing along the output and lie in 1..5, and a weakness that
\* yields no drills leaves a gap rather than shifting later priorities.
C14_PriorityIsInputPosition ==
  pc = "done" =>
    /\ \A i \in 1..Len(drillRecs) :
         /\ drillRecs[i].priority \in 1..Min2(5, Len(weaknessList))
         /\ drillRecs[i].weakness = weaknessList[drillRecs[i].priority]
         /\ drillRecs[i].recommendedDrills = SelectDrillsForWeakness(drillRecs[i].weakness)
    /\ \A i \in 1..(Len(drillRecs) - 1) : drillRecs[i].priority < drillRecs[i + 1].priority
    /\ \A k \in 1..Min2(5, Len(weaknessList)) :
         (\E i \in 1..Len(drillRecs) : drillRecs[i].priority = k)
           <=> Len(SelectDrillsForWeakness(weaknessList[k])) > 0

\* A weakness without drills in the middle of the list: the recommendation
\* after the gap carries a priority larger than its place in the output.
C14_Witness ==
  /\ pc = "done"
  /\ \E i \in 2..Len(drillRecs) :
       /\ drillRecs[i].priority > i
       /\ drillRecs[i - 1].priority = i - 1

----------------------------------------------------------------------------
(* Inputs of the catalog runs: selectDrillsForWeakness on one weakness,    *)
(* with a catalog from which up to MaxMissing drills have been removed.    *)

MaxMissing == 2

DrillIds == { DRILL_DATABASE[i].id : i \in 1..Len(DRILL_DATABASE) }

\* The sets of at most n drill ids.
RECURSIVE MissingUpTo(_)
MissingUpTo(n) ==
  IF n = 0 THEN { {} }
  ELSE LET fewer == MissingUpTo(n - 1)
       IN fewer \cup { m \cup { d } : m \in fewer, d \in DrillIds }

\* The shipped catalog without the given drills, file order kept.
CatalogWithout(missing) == Filter(DRILL_DATABASE, LAMBDA d : d.id \notin missing)

\* Issues the two maps know, and issues they do not, one per catalog
\* category and one in a category without drills.
CatalogIssues ==
  { << "Low Contact Point", "Arm Mechanics" >>,
    << "Poor Velocity Timing", "Timing" >>,
    << "Excessive Forward Lean", "Body Positioning" >>,
    << "Limited Vertical Jump", "Power Generation" >>,
    << "Inconsistent Contact", "Consistency" >>,
    << "Weak Leg Drive", "Power Generation" >>,
    << "Abrupt Follow-Through", "Follow-Through" >>,
    << "Late Toss", "Timing" >>,
    << "Late Approach", "Footwork" >> }

CatalogWeaknesses ==
  { [category |-> c[2], issue |-> c[1], severity |-> "medium",
     detectedValue |-> 10, optimalRange |-> [min |-> 20, max |-> 40]] : c \in CatalogIssues }

InitCatalog ==
  /\ pc = "weaknesses"
  /\ video = [frames |-> << >>]
  /\ opts = [minVisibility |-> Undefined]
  /\ report = NoReport
  /\ \E w \in CatalogWeaknesses : weaknessList = << w >>
  /\ drillRecs = << >>
  /\ \E missing \in MissingUpTo(MaxMissing) : catalog = CatalogWithout(missing)
  /\ HookInit

NextCatalog == RunGenerateDrillRecommendations

SpecCatalog == InitCatalog /\ [][NextCatalog]_vars

----------------------------------------------------------------------------

InCatalog(id) == \E i \in 1..Len(catalog) : catalog[i].id = id

\* The ids of a drill list.
IdsOf(drills) == [i \in 1..Len(drills) |-> drills[i].id]

\* The drills selected for the single weakness of a catalog run (none when
\* no recommendation was pushed).
Selected == IF Len(drillRecs) = 0 THEN << >> ELSE drillRecs[1].recommendedDrills

IsPrefix(p, s) == Len(p) <= Len(s) /\ \A i \in 1..Len(p) : p[i] = s[i]

Mapped(w) == w.issue \in DOMAIN WEAKNESS_TO_DRILL_MAP

FoundById(w) ==
  IF Mapped(w) THEN SelectSeq(Slice(WEAKNESS_TO_DRILL_MAP[w.issue], 3), InCatalog) ELSE << >>

\* The categories the fallback matches: the mapped ones, or the weakness's
\* own category if the issue is unmapped.
FallbackCategories(w) ==
  IF w.issue \in DOMAIN WEAKNESS_TO_CATEGORY_MAP
    THEN WEAKNESS_TO_CATEGORY_MAP[w.issue] ELSE << w.category >>

\* The unused category matches, in catalog order.
CategoryMatches(w) ==
  Filter(catalog, LAMBDA d : InSeq(FallbackCategories(w), d.category)
                             /\ ~InSeq(FoundById(w), d.id))

\* The id of the first match of the given difficulty, if any.
FirstOf(matches, difficulty) ==
  LET those == Filter(matches, LAMBDA d : d.difficulty = difficulty)
  IN IF Len(those) > 0 THEN << those[1].id >> ELSE << >>

----------------------------------------------------------------------------

\* The ids of the matches not yet among the chosen ids.
UnusedIds(matches, chosen) == IdsOf(Filter(matches, LAMBDA d : ~InSeq(chosen, d.id)))

\* C16 as stated: when the ID lookup yields k < 3 drills, the fallback adds
\* one beginner drill, then one intermediate drill, then fills all remaining
\* slots with unused category matches, so the result holds min(3, k + m)
\* drills, m being the number of unused category matches.
C16_FallbackFillsSlots ==
  (pc = "done" /\ Len(FoundById(weaknessList[1])) < 3)
    => LET w == weaknessList[1]
           found == FoundById(w)
           matches == CategoryMatches(w)
           picked == found \o FirstOf(matches, "beginner") \o FirstOf(matches, "intermediate")
       IN /\ IdsOf(Selected) = Slice(picked \o UnusedIds(matches, picked), 3)
          /\ Len(Selected) = Min2(3, Len(found) + Len(matches))

\* C16 as the code has it: the fallback adds the first beginner match only
\* when nothing was found by ID, then the first intermediate match if fewer
\* than 3 drills are held, then at most one more unused match; so it adds
\* at most 3 drills when k = 0 and at most 2 when k >= 1, and the result
\* can hold fewer than min(3, k + m) drills.
C16_FallbackAddsAtMostOneEach ==
  (pc = "done" /\ Len(FoundById(weaknessList[1])) < 3)
    => LET w == weaknessList[1]
           found == FoundById(w)
           matches == CategoryMatches(w)
           d1 == found \o (IF Len(found) = 0 THEN FirstOf(matches, "beginner") ELSE << >>)
           d2 == d1 \o (IF Len(d1) < 3 THEN FirstOf(matches, "intermediate") ELSE << >>)
           d3 == d2 \o (IF Len(d2) < 3 THEN Slice(UnusedIds(matches, d2), 1) ELSE << >>)
       IN /\ IdsOf(Selected) = d3
          /\ Len(Selected) <= Min2(3, Len(found) + Len(matches))
          /\ Len(Selected) - Len(found) <= (IF Len(found) = 0 THEN 3 ELSE 2)

\* The shipped catalog and an unmapped issue whose category holds three or
\* more drills, none of them a beginner drill: two drills are selected.
C16_Witness ==
  /\ pc = "done"
  /\ catalog = DRILL_DATABASE
  /\ LET w == weaknessList[1]
     IN /\ Len(FoundById(w)) = 0
        /\ Len(CategoryMatches(w)) >= 3
        /\ FirstOf(CategoryMatches(w), "beginner") = << >>
        /\ Len(Selected) = 2

----------------------------------------------------------------------------
(* Inputs of the joint-helper runs: one frame with the twelve landmarks    *)
(* the angle helpers read, of which up to MaxFaults are absent or carry a  *)
(* visibility around the 0.5 threshold.                                    *)

MaxFaults == 2

\* Standing, arms half raised; every landmark confident.
PoseFullBody ==
  << Kp(11, 40, 30, 0, 90), Kp(12, 60, 30, 0, 90), Kp(13, 30, 30, 0, 90),
     Kp(14, 70, 30, 0, 90), Kp(15, 30, 20, 0, 90), Kp(16, 70, 20, 0, 90),
     Kp(23, 42, 60, 0, 90), Kp(24, 58, 60, 0, 90), Kp(25, 42, 80, 0, 90),
     Kp(26, 58, 80, 0, 90), Kp(27, 42, 95, 0, 90), Kp(28, 60, 95, 0, 90) >>

JointIds == { PoseFullBody[i].id : i \in 1..Len(PoseFullBody) }

\* What happens to a landmark: -1 removes it from the frame, any other
\* value is its visibility in hundredths (0.5 passes the helpers' threshold
\* and fails a caller's minVisibility of 0.8).
FaultKinds == { -1, 49, 50 }

\* The sets of at most n landmark ids.
RECURSIVE FaultyUpTo(_)
FaultyUpTo(n) ==
  IF n = 0 THEN { {} }
  ELSE LET fewer == FaultyUpTo(n - 1)
       IN fewer \cup { m \cup { id } : m \in fewer, id \in JointIds }

\* The full-body pose with the faults applied.
PoseWithFaults(fault) ==
  LET kept == Filter(PoseFullBody, LAMBDA kp : kp.id \notin DOMAIN fault \/ fault[kp.id] >= 0)
  IN [i \in 1..Len(kept) |->
        IF kept[i].id \in DOMAIN fault
          THEN [kept[i] EXCEPT !.visibility = fault[kept[i].id]] ELSE kept[i]]

InitJoints ==
  /\ pc = "frames"
  /\ \E faulty \in FaultyUpTo(MaxFaults) :
       \E fault \in [faulty -> FaultKinds] :
         video = [frames |-> BuildFrames(<< PoseWithFaults(fault) >>, << >>, << >>, 0, 0)]
  /\ opts \in EngineOptions
  /\ report = NoReport
  /\ weaknessList = << >>
  /\ drillRecs = << >>
  /\ catalog = DRILL_DATABASE
  /\ HookInit

SpecJoints == InitJoints /\ [][Next]_vars

----------------------------------------------------------------------------

\* The eight joint-angle helpers: the landmark ids each reads, the middle
\* one being the joint.
HelperJoints ==
  [RightElbow |-> << 12, 14, 16 >>, LeftElbow |-> << 11, 13, 15 >>,
   RightShoulder |-> << 14, 12, 24 >>, LeftShoulder |-> << 13, 11, 23 >>,
   RightKnee |-> << 24, 26, 28 >>, LeftKnee |-> << 23, 25, 27 >>,
   RightHip |-> << 12, 24, 26 >>, LeftHip |-> << 11, 23, 25 >>]

HelperValue(helper, keypoints) ==
  CASE helper = "RightElbow" -> CalculateRightElbowAngle(keypoints)
    [] helper = "LeftElbow" -> CalculateLeftElbowAngle(keypoints)
    [] helper = "RightShoulder" -> CalculateRightShoulderAngle(keypoints)
    [] helper = "LeftShoulder" -> CalculateLeftShoulderAngle(keypoints)
    [] helper = "RightKnee" -> CalculateRightKneeAngle(keypoints)
    [] helper = "LeftKnee" -> CalculateLeftKneeAngle(keypoints)
    [] helper = "RightHip" -> CalculateRightHipAngle(keypoints)
    [] helper = "LeftHip" -> CalculateLeftHipAngle(keypoints)

\* The landmark is in the frame with visibility >= 0.5.
Confident(keypoints, id) ==
  \E i \in 1..Len(keypoints) : keypoints[i].id = id /\ keypoints[i].visibility >= 50

Landmark(keypoints, id) == FindKeypoint(keypoints, id)[1]

\* C17: each joint-angle helper (left/right elbow, shoulder, knee, hip)
\* returns null iff any of its three landmarks is absent from the frame or
\* has visibility < 0.5, and otherwise returns the angle at the middle
\* joint; the 0.5 threshold is fixed and not affected by the minVisibility
\* option.
C17_JointHelpersNullIffUnseen ==
  (pc = "report" /\ Len(video.frames) = 1)
    => LET kps == video.frames[1].keypoints
       IN /\ \A h \in DOMAIN HelperJoints :
               LET t == HelperJoints[h]
                   seen == \A n \in 1..3 : Confident(kps, t[n])
               IN /\ HelperValue(h, kps) = Null <=> ~seen
                  /\ seen => HelperValue(h, kps) =
                               CalculateAngle(Landmark(kps, t[1]), Landmark(kps, t[2]),
                                              Landmark(kps, t[3]))
          /\ report.timelineData.angles[1].angle = HelperValue("RightElbow", kps)
          /\ report.timelineData.angles[2].angle = HelperValue("RightShoulder", kps)

\* minVisibility 0.8, the right wrist at exactly 0.5 and the right hip
\* absent: the elbow angle is reported, the shoulder and hip angles are null.
C17_Witness ==
  /\ ReportReady /\ Len(video.frames) = 1
  /\ opts.minVisibility = 80
  /\ LET kps == video.frames[1].keypoints
     IN /\ Confident(kps, 16) /\ Landmark(kps, 16).visibility = 50
        /\ ~Has(FindKeypoint(kps, 24))
        /\ report.timelineData.angles[1].angle \in 0..180
        /\ report.timelineData.angles[2].angle = Null
        /\ CalculateRightHipAngle(kps) = Null
        /\ CalculateLeftKneeAngle(kps) \in 0..180

----------------------------------------------------------------------------
(* Inputs of the degenerate-geometry runs: frame lists in which a pose     *)
(* with the right wrist on the right elbow may occur.                     *)

MaxDegenerateFrames == 3

\* The wrist detected at the elbow's position: the elbow-to-wrist vector has
\* zero length.
PoseWristOnElbow ==
  << Kp(11, 40, 30, 0, 90), Kp(12, 60, 30, 0, 90), Kp(14, 70, 30, 0, 90),
     Kp(16, 70, 30, 0, 90), Kp(23, 42, 60, 0, 90), Kp(24, 58, 60, 0, 90) >>

DegeneratePoses == { PoseCocked, PoseExtended, PoseWristOnElbow }

InitDegenerate ==
  /\ pc = "frames"
  /\ \E n \in 0..MaxDegenerateFrames :
       \E poses \in [1..n -> DegeneratePoses] :
         video = [frames |-> BuildFrames(poses, [i \in 1..n |-> 1],
                                         [i \in 1..n |-> PhaseFrameTime], 0, 0)]
  /\ opts \in EngineOptions
  /\ report = NoReport
  /\ weaknessList = << >>
  /\ drillRecs = << >>
  /\ catalog = DRILL_DATABASE
  /\ HookInit

SpecDegenerate == InitDegenerate /\ [][Next]_vars

----------------------------------------------------------------------------

\* C18: angle computation on degenerate geometry yields null, never NaN: no
\* AnglePoint, key-moment metric or KeyMetrics angle field ever holds NaN.
C18_NoNaNAngles ==
  ReportReady =>
    /\ \A i \in 1..Len(report.timelineData.angles) :
         report.timelineData.angles[i].angle # NaN
    /\ \A i \in 1..Len(report.keyMoments) :
         /\ report.keyMoments[i].metrics.elbowAngle # NaN
         /\ report.keyMoments[i].metrics.shoulderAngle # NaN
    /\ report.keyMetrics.maxElbowAngle # NaN
    /\ report.keyMetrics.minElbowAngle # NaN
    /\ report.keyMetrics.maxShoulderAngle # NaN
    /\ report.keyMetrics.averageTorsoAngle # NaN

----------------------------------------------------------------------------

\* The configured threshold: options.minVisibility, 0.5 when left out.
ConfiguredMinVisibility(o) ==
  IF o.minVisibility = Undefined THEN DefaultMinVisibility ELSE o.minVisibility

\* The right wrist is in the frame with at least the given visibility.
WristSeen(frame, threshold) ==
  \E i \in 1..Len(frame.keypoints) :
    frame.keypoints[i].id = 16 /\ frame.keypoints[i].visibility >= threshold

\* The indices i of the frame pairs (i-1, i) whose wrists both pass.
PairsSeen(frames, threshold) ==
  { i \in 2..Len(frames) : WristSeen(frames[i - 1], threshold) /\ WristSeen(frames[i], threshold) }

\* C19: calculateVelocityTimeline emits a velocity point for the frame pair
\* (i-1, i), stamped with frame i's number and timestamp, iff the right
\* wrist is present in both frames with visibility >= the configured
\* minVisibility (default 0.5, for every configured value including 0);
\* skipped pairs are omitted and emitted points keep input order.
C19_PointIffWristAboveConfigured ==
  ReportReady =>
    LET vel == report.timelineData.velocities
        pairs == PairsSeen(video.frames, ConfiguredMinVisibility(opts))
    IN /\ Len(vel) = Cardinality(pairs)
       /\ \A i \in pairs : \E k \in 1..Len(vel) :
            /\ vel[k].frame = video.frames[i].frame_number
            /\ vel[k].timestamp = video.frames[i].timestamp
       /\ \A k \in 1..(Len(vel) - 1) : vel[k].frame < vel[k + 1].frame

----------------------------------------------------------------------------

\* C20: calculateAngleTimeline returns exactly two entries per input frame
\* (Right Elbow then Right Shoulder), in frame order, so its length is twice
\* the number of frames; a frame with missing or low-confidence landmarks,
\* a frame with zero landmarks included, still contributes its entries,
\* with angle = null.
C20_TwoAngleEntriesPerFrame ==
  ReportReady =>
    LET angles == report.timelineData.angles
        frames == video.frames
    IN /\ Len(angles) = 2 * Len(frames)
       /\ \A i \in 1..Len(frames) :
            /\ angles[2 * i - 1].joint = "Right Elbow"
            /\ angles[2 * i].joint = "Right Shoulder"
            /\ \A e \in { 2 * i - 1, 2 * i } :
                 /\ angles[e].frame = frames[i].frame_number
                 /\ angles[e].timestamp = frames[i].timestamp
            /\ ~(\A id \in { 12, 14, 16 } : Confident(frames[i].keypoints, id))
                 => angles[2 * i - 1].angle = Null
            /\ ~(\A id \in { 14, 12, 24 } : Confident(frames[i].keypoints, id))
                 => angles[2 * i].angle = Null

\* Three frames, the middle one without any landmark, the last with a
\* low-confidence wrist: six entries, null in the middle pair and for the
\* last elbow, angles elsewhere.
C20_Witness ==
  /\ ReportReady
  /\ Len(video.frames) = 3
  /\ video.frames[2].keypoints = << >>
  /\ Len(report.timelineData.angles) = 6
  /\ report.timelineData.angles[1].angle \in 0..180
  /\ report.timelineData.angles[3].angle = Null
  /\ report.timelineData.angles[4].angle = Null
  /\ report.timelineData.angles[5].angle = Null
  /\ report.timelineData.angles[6].angle \in 0..180

----------------------------------------------------------------------------
(* Inputs of the malformed-input runs: frame lists whose timestamps may    *)
(* step backwards and whose frames may hold a landmark id outside 0..32.   *)

MaxMalformedFrames == 3

\* A landmark with an id MediaPipe does not define.
PoseUnknownLandmark ==
  << Kp(12, 60, 30, 0, 90), Kp(14, 70, 30, 0, 90), Kp(16, 70, 20, 0, 90),
     Kp(40, 10, 10, 0, 90) >>

MalformedPoses == { PoseCocked, PoseExtended, PoseUnknownLandmark }

\* Milliseconds between consecutive frames; negative: the timestamp decreases.
MalformedSteps == { 0 - PhaseFrameTime, PhaseFrameTime }

InitMalformed ==
  /\ pc = "frames"
  /\ \E n \in 0..MaxMalformedFrames :
       \E poses \in [1..n -> MalformedPoses] :
         \E dt \in [1..(IF n = 0 THEN 0 ELSE n - 1) -> MalformedSteps] :
           video = [frames |-> BuildFrames(poses, [i \in 1..Len(dt) |-> 1], dt, 0,
                                           MaxMalformedFrames * PhaseFrameTime)]
  /\ opts = [minVisibility |-> Undefined]
  /\ report = NoReport
  /\ weaknessList = << >>
  /\ drillRecs = << >>
  /\ catalog = DRILL_DATABASE
  /\ HookInit

SpecMalformed == InitMalformed /\ [][Next]_vars

----------------------------------------------------------------------------

\* Some timestamp is smaller than its predecessor's.
TimestampsDecrease(frames) ==
  \E i \in 2..Len(frames) : frames[i].timestamp < frames[i - 1].timestamp

\* Some landmark id lies outside 0..32.
UnknownLandmark(frames) ==
  \E i \in 1..Len(frames) : \E k \in 1..Len(frames[i].keypoints) :
    frames[i].keypoints[k].id \notin 0..32

\* C21: malformed input is rejected at the boundary: generateMovementReport
\* on a frame list whose timestamps decrease somewhere, or that contains a
\* landmark id outside 0..32, fails instead of returning a report, so the
\* engine never gets past its input with such a list.
C21_MalformedInputRejected ==
  (TimestampsDecrease(video.frames) \/ UnknownLandmark(video.frames)) => pc = "frames"

----------------------------------------------------------------------------
(* Phase ranges over arbitrary frame numbering *)

\* The emitted phases keep the order of PhaseNames.
InPhaseOrder(phs) ==
  \A i \in 1..(Len(phs) - 1) : PhaseIndex(phs[i].name) < PhaseIndex(phs[i + 1].name)

\* Number of emitted phases whose range holds frame number n.
PhasesHolding(phs, n) ==
  Cardinality({ i \in 1..Len(phs) : phs[i].startFrame <= n /\ n <= phs[i].endFrame })

\* C22 as stated: for every frame list, contiguously numbered or not, with a
\* non-empty phase list, the phases are in the order Preparation,
\* Acceleration, Contact, Follow-through, the first startFrame is the first
\* frame_number, the last endFrame is the last frame_number, and each
\* endFrame + 1 equals the next startFrame.
C22_RangesAlwaysAdjacent ==
  (ReportReady /\ Len(report.phases) > 0)
    => /\ InPhaseOrder(report.phases)
       /\ Partitions(report.phases, video.frames[1].frame_number,
                     video.frames[Len(video.frames)].frame_number)

\* C22, amended: for every frame list with a non-empty phase list, the
\* phases are in the order Preparation, Acceleration, Contact,
\* Follow-through, the first startFrame is the first frame_number, the last
\* endFrame is the last frame_number, and each endFrame + 1 equals the next
\* startFrame except where Contact is omitted between Acceleration and
\* Follow-through: there the ranges may be separated by frame numbers that no
\* frame carries.  Every frame's number lies in exactly one emitted phase.
C22_RangesAdjacentOrSkipContact ==
  (ReportReady /\ Len(report.phases) > 0)
    => LET phs == report.phases
           frames == video.frames
       IN /\ InPhaseOrder(phs)
          /\ phs[1].startFrame = frames[1].frame_number
          /\ phs[Len(phs)].endFrame = frames[Len(frames)].frame_number
          /\ \A i \in 1..(Len(phs) - 1) :
               IF phs[i].name = "Acceleration" /\ phs[i + 1].name = "Follow-through"
                 THEN phs[i].endFrame < phs[i + 1].startFrame
                 ELSE phs[i].endFrame + 1 = phs[i + 1].startFrame
          /\ \A k \in 1..Len(frames) : PhasesHolding(phs, frames[k].frame_number) = 1

\* Contact is omitted although its computed range is not empty: Acceleration
\* and Follow-through are separated by a frame number no frame carries.
C22_Witness ==
  /\ ReportReady
  /\ \E i \in 1..(Len(report.phases) - 1) :
       /\ report.phases[i].name = "Acceleration"
       /\ report.phases[i + 1].name = "Follow-through"
       /\ report.phases[i].endFrame + 1 < report.phases[i + 1].startFrame

----------------------------------------------------------------------------
(* The anchor frame of the phases *)

MaxAnchorFrames == 4

\* Increments of frame_number between consecutive frames: a number may
\* repeat, so that a frame after the first can carry number 0.
AnchorNumberSteps == { 0, 1 }

InitAnchor ==
  /\ pc = "frames"
  /\ \E n \in 0..MaxAnchorFrames :
       \E poses \in [1..n -> PhasePoses] :
         \E df \in [1..(IF n = 0 THEN 0 ELSE n - 1) -> AnchorNumberSteps] :
           video = [frames |-> BuildFrames(poses, df, [i \in 1..Len(df) |-> PhaseFrameTime],
                                           0, 0)]
  /\ opts = [minVisibility |-> Undefined]
  /\ report = NoReport
  /\ weaknessList = << >>
  /\ drillRecs = << >>
  /\ catalog = DRILL_DATABASE
  /\ HookInit

SpecAnchor == InitAnchor /\ [][Next]_vars

----------------------------------------------------------------------------
(* Rule 2 around its thresholds *)

\* Contact elbow angles within MaxElbowSpread degrees of the 160 threshold.
MaxElbowSpread == 12

ElbowAngles == (160 - MaxElbowSpread)..(160 + MaxElbowSpread)

\* metrics.elbowAngle of the contact moment: number | null, optional, or the
\* NaN calculateAngle can hand back.
ContactElbowValues == ElbowAngles \cup { Null, Undefined, NaN }

ContactHeightValues == { Undefined, 50, 60 }

ElbowMoments(elbow, height) ==
  << [frame |-> 5, timestamp |-> 500, label |-> "Peak Velocity",
      metrics |-> [NoMetrics EXCEPT !.velocity = 100, !.elbowAngle = 170,
                                    !.shoulderAngle = 130, !.armExtension = 40]],
     [frame |-> 5, timestamp |-> 500, label |-> "Maximum Extension",
      metrics |-> [NoMetrics EXCEPT !.armExtension = 40, !.velocity = 100,
                                    !.elbowAngle = elbow, !.shoulderAngle = 130,
                                    !.bodyHeight = height]] >>

InitElbow ==
  /\ pc = "report"
  /\ video = [frames |-> << >>]
  /\ opts = [minVisibility |-> Undefined]
  /\ \E moments \in { ElbowMoments(e, h) : e \in ContactElbowValues, h \in ContactHeightValues }
                      \cup { SubSeq(ElbowMoments(170, Undefined), 1, 1) } :
       report = [analysisFrames |-> 0,
                 keyMetrics |-> BaseMetrics,
                 phases |-> RulePhases(<< >>),
                 keyMoments |-> moments,
                 timelineData |-> [velocities |-> << >>, angles |-> << >>]]
  /\ weaknessList = << >>
  /\ drillRecs = << >>
  /\ catalog = DRILL_DATABASE
  /\ HookInit

SpecElbow == InitElbow /\ [][NextRules]_vars

\* C24: when the contact moment's elbow angle a is a number, detectWeaknesses
\* emits exactly one 'Incomplete Arm Extension' weakness iff a < 160, of
\* severity high if a < 150, medium if 150 <= a < 155, low if 155 <= a < 160;
\* when the angle is null or absent, or there is no contact moment, the rule
\* emits nothing.
C24_IncompleteArmExtension ==
  WeaknessesReady =>
    LET contactMoment == ContactMomentOf(report.keyMoments)
        hits == WithIssue(weaknessList, "Incomplete Arm Extension")
    IN IF Has(contactMoment) /\ contactMoment[1].metrics.elbowAngle \in Nat
         THEN LET a == contactMoment[1].metrics.elbowAngle
              IN /\ Cardinality(hits) = (IF a < 160 THEN 1 ELSE 0)
                 /\ \A i \in hits :
                      /\ weaknessList[i].severity =
                           (IF a < 150 THEN "high" ELSE IF a < 155 THEN "medium" ELSE "low")
                      /\ weaknessList[i].detectedValue = a
         ELSE hits = { }

\* The boundary of the lowest band: an angle of exactly 155 is reported low.
C24_Witness ==
  /\ WeaknessesReady
  /\ Has(ContactMomentOf(report.keyMoments))
  /\ ContactMomentOf(report.keyMoments)[1].metrics.elbowAngle = 155
  /\ \E i \in 1..Len(weaknessList) :
       weaknessList[i].issue = "Incomplete Arm Extension" /\ weaknessList[i].severity = "low"

----------------------------------------------------------------------------
(* analysisLoader.ts: frame lookup.  Timestamps are in milliseconds. *)

RECURSIVE LinearClosest(_, _, _, _, _)
\* The for-of loop of the linear getFrameByTimestamp from frame i on.
LinearClosest(frames, timestamp, i, closestIdx, minDiff) ==
  IF i > Len(frames) THEN closestIdx
  ELSE LET diff == Abs(timestamp - frames[i].timestamp)
       IN IF diff < minDiff
            THEN LinearClosest(frames, timestamp, i + 1, i, diff)
            ELSE LinearClosest(frames, timestamp, i + 1, closestIdx, minDiff)

\* Index of closestFrame in the linear-scan getFrameByTimestamp.
LinearClosestIdx(frames, timestamp) ==
  LinearClosest(frames, timestamp, 1, 1, Abs(timestamp - frames[1].timestamp))

RECURSIVE BinaryClosest(_, _, _, _, _, _)
\* The while (left <= right) loop; indices are 1-based here.
BinaryClosest(frames, timestamp, left, right, closestIdx, minDiff) ==
  IF left > right THEN closestIdx
  ELSE LET mid == (left + right) \div 2
           diff == Abs(timestamp - frames[mid].timestamp)
           idx == IF diff < minDiff THEN mid ELSE closestIdx
           min == IF diff < minDiff THEN diff ELSE minDiff
       IN IF frames[mid].timestamp < timestamp
            THEN BinaryClosest(frames, timestamp, mid + 1, right, idx, min)
          ELSE IF frames[mid].timestamp > timestamp
            THEN BinaryClosest(frames, timestamp, left, mid - 1, idx, min)
          ELSE mid

\* A plausible slip: the classic search for an exact match, which keeps
\* only the last probe as the closest frame.
ClosestIdxLastProbe(frames, timestamp) ==
  LET RECURSIVE Probe(_, _, _)
      Probe(left, right, last) ==
        IF left > right THEN last
        ELSE LET mid == (left + right) \div 2
             IN IF frames[mid].timestamp < timestamp THEN Probe(mid + 1, right, mid)
                ELSE IF frames[mid].timestamp > timestamp THEN Probe(left, mid - 1, mid)
                ELSE mid
  IN Probe(1, Len(frames), 1)

\* closestIdx (1-based) when the binary search of getFrameByTimestamp ends.
ClosestIdx(frames, timestamp) ==
  BinaryClosest(frames, timestamp, 1, Len(frames), 1, Abs(timestamp - frames[1].timestamp))

GetFrameByTimestamp(analysis, timestamp) ==
  IF Len(analysis.frames) = 0 THEN None
  ELSE LET closestFrame == analysis.frames[ClosestIdx(analysis.frames, timestamp)]
       IN IF Len(closestFrame.keypoints) = 0 THEN None ELSE Some(closestFrame)

\* Math.floor(timestamp * fps), timestamp in seconds
TimestampToFrameNumber(timestamp, fps) == (timestamp * fps) \div 1000

\* frameNumber / fps, in seconds
FrameNumberToTimestamp(frameNumber, fps) == (frameNumber * 1000) \div fps

----------------------------------------------------------------------------
(* useVideoSync.ts: the handlers of the hook.  The analysis is loaded and   *)
(* the player is mounted; Date.now() and the skeleton ref are not part of   *)
(* the state.                                                               *)

\* handleScrub
HandleScrub(timeInSeconds) ==
  /\ pc = "replay"
  /\ currentFrame' = GetFrameByTimestamp(video, timeInSeconds)
  /\ playbackState' = [playbackState EXCEPT
                         !.currentFrame = TimestampToFrameNumber(timeInSeconds, video.video_info.fps),
                         !.currentTime = timeInSeconds]
  /\ UNCHANGED << pc, video, opts, report, weaknessList, drillRecs, catalog,
                  playbackRefs, isSeekingRef, seeks, timers >>

----------------------------------------------------------------------------
(* Inputs of the lookup runs: scrubbing over any analysis whose frames are *)
(* sorted by timestamp, evenly spaced or not, one of them possibly without *)
(* keypoints.                                                              *)

MaxLookupFrames == 4

\* Milliseconds between consecutive frames of an analysis.
LookupSteps == { 0, PhaseFrameTime, 2 * PhaseFrameTime }

\* The frames of an analysis carry keypoints, except at most one of them.
LookupPoses(n, bare) == [i \in 1..n |-> IF i = bare THEN PoseNone ELSE PoseWristA]

\* Query timestamps: before the first frame, on frames, between frames and
\* past the last frame.
LookupTimes == { (PhaseFrameTime \div 2) * k : k \in (0 - 1)..(4 * MaxLookupFrames - 3) }

AnalysisOf(frames) ==
  [frames |-> frames,
   video_info |-> [fps |-> 1000 \div PhaseFrameTime, total_frames |-> Len(frames)]]

InitLookup ==
  /\ pc = "replay"
  /\ \E n \in 1..MaxLookupFrames :
       \E bare \in 0..n :
         \E dt \in [1..(n - 1) -> LookupSteps] :
           video = AnalysisOf(BuildFrames(LookupPoses(n, bare), [i \in 1..Len(dt) |-> 1],
                                          dt, 0, 0))
  /\ opts = [minVisibility |-> Undefined]
  /\ report = NoReport
  /\ weaknessList = << >>
  /\ drillRecs = << >>
  /\ catalog = DRILL_DATABASE
  /\ HookInit

NextLookup == \E t \in LookupTimes : HandleScrub(t)

SpecLookup == InitLookup /\ [][NextLookup]_vars

\* |frame.timestamp - t| of frame idx.
Distance(frames, idx, t) == Abs(frames[idx].timestamp - t)

\* C25: on a non-empty frame list sorted by non-decreasing timestamp and any
\* query t, the binary-search getFrameByTimestamp selects a frame at minimal
\* distance |frame.timestamp - t| over all frames, the distance the linear
\* scan reaches, and hands back null exactly when the selected frame has no
\* keypoints (otherwise it hands back the selected frame).
C25_BinarySearchFindsClosest ==
  [][\A t \in LookupTimes :
       HandleScrub(t) =>
         LET frames == video.frames
             idx == ClosestIdx(frames, t)
         IN /\ \A k \in 1..Len(frames) : Distance(frames, idx, t) <= Distance(frames, k, t)
            /\ Distance(frames, idx, t) = Distance(frames, LinearClosestIdx(frames, t), t)
            /\ (currentFrame' = None) <=> (Len(frames[idx].keypoints) = 0)
            /\ (currentFrame' # None) => currentFrame' = Some(frames[idx])
            /\ (currentFrame' # None) =>
                 \A k \in 1..Len(frames) :
                   Abs(currentFrame'[1].timestamp - t) <= Distance(frames, k, t)]_vars

\* A query strictly between two unevenly spaced frames, answered with the
\* nearer of the two.
C25_Witness ==
  /\ pc = "replay"
  /\ Len(video.frames) >= 3
  /\ video.frames[2].timestamp = PhaseFrameTime
  /\ video.frames[3].timestamp = 3 * PhaseFrameTime
  /\ playbackState.currentTime = PhaseFrameTime + PhaseFrameTime \div 2
  /\ currentFrame = Some(video.frames[2])

----------------------------------------------------------------------------
(* Acceleration and the velocity peak *)

StrictlyIncreasingNumbers(frames) ==
  \A i \in 2..Len(frames) : frames[i].frame_number > frames[i - 1].frame_number

PhaseNamed(phs, name) == Find(phs, LAMBDA p : p.name = name)

\* C26: for any frame list with strictly increasing frame_number values and
\* a non-empty velocity timeline, detectMovementPhases emits both Preparation
\* and Acceleration, the Acceleration range contains the frame of the peak
\* velocity, and Acceleration.maxVelocity equals KeyMetrics.peakVelocity.
C26_AccelerationHoldsPeak ==
  (ReportReady /\ StrictlyIncreasingNumbers(video.frames)
     /\ Len(report.timelineData.velocities) > 0)
    => LET accel == PhaseNamed(report.phases, "Acceleration")
           peak == PeakVelocityData(report.timelineData.velocities)
       IN /\ Has(PhaseNamed(report.phases, "Preparation"))
          /\ Has(accel)
          /\ accel[1].startFrame <= peak.frame
          /\ peak.frame <= accel[1].endFrame
          /\ peak.frame = report.keyMetrics.peakVelocityFrame
          /\ accel[1].maxVelocity = report.keyMetrics.peakVelocity
          /\ accel[1].maxVelocity = peak.velocity

\* A non-contiguous list whose velocity peak is positive and lies past the
\* first velocity point.
C26_Witness ==
  /\ ReportReady
  /\ StrictlyIncreasingNumbers(video.frames)
  /\ ~ConsecutiveNumbers(video.frames)
  /\ Len(report.timelineData.velocities) >= 3
  /\ report.keyMetrics.peakVelocity > 0
  /\ report.keyMetrics.peakVelocityFrame > report.timelineData.velocities[1].frame
  /\ Has(PhaseNamed(report.phases, "Acceleration"))
  /\ PhaseNamed(report.phases, "Acceleration")[1].maxVelocity = report.keyMetrics.peakVelocity

----------------------------------------------------------------------------
(* The frame of the highest body position *)

\* C27: whenever a 'Peak Height' key moment exists, the metrics'
\* highestBodyPositionFrame is that moment's frame, also when some frames
\* have no centre of mass.
C27_HighestFrameIsPeakHeightMoment ==
  ReportReady =>
    \A m \in 1..Len(report.keyMoments) :
      report.keyMoments[m].label = "Peak Height"
        => report.keyMetrics.highestBodyPositionFrame = report.keyMoments[m].frame

----------------------------------------------------------------------------
(* Rule 1 in the composed pipeline *)

MaxContactFrames == 3

\* Arm extended overhead from a crouch: the body is low in the image, its
\* centre of mass below the 0.45 line of rule 1.
PoseCrouched ==
  << Kp(11, 40, 45, 0, 90), Kp(12, 60, 45, 0, 90), Kp(14, 60, 32, 0, 90),
     Kp(16, 60, 20, 0, 90), Kp(23, 42, 70, 0, 90), Kp(24, 58, 70, 0, 90) >>

ContactPoses == { PoseCocked, PoseExtended, PoseCrouched, PoseWristOnly }

InitContact ==
  /\ pc = "frames"
  /\ \E n \in 0..MaxContactFrames :
       \E poses \in [1..n -> ContactPoses] :
         \E dt \in [1..(IF n = 0 THEN 0 ELSE n - 1) -> EngineSteps] :
           video = [frames |-> BuildFrames(poses, [i \in 1..Len(dt) |-> 1], dt, 0, 0)]
  /\ opts = [minVisibility |-> Undefined]
  /\ report = NoReport
  /\ weaknessList = << >>
  /\ drillRecs = << >>
  /\ catalog = DRILL_DATABASE
  /\ HookInit

SpecContact == InitContact /\ [][Next]_vars

\* C28: in the composed pipeline detectWeaknesses never emits 'Low Contact
\* Point': the Maximum Extension moment it reads as the contact moment
\* carries no bodyHeight; of the moments detectKeyMoments produces only
\* Peak Height does.
C28_NoLowContactPointInPipeline ==
  WeaknessesReady =>
    /\ WithIssue(weaknessList, "Low Contact Point") = { }
    /\ \A m \in 1..Len(report.keyMoments) :
         (report.keyMoments[m].metrics.bodyHeight # Undefined)
           <=> (report.keyMoments[m].label = "Peak Height")

\* A run whose contact moment exists while even the body's highest position
\* is below the 0.45 line of rule 1: nothing is reported all the same.
C28_Witness ==
  /\ WeaknessesReady
  /\ Has(ContactMomentOf(report.keyMoments))
  /\ \E m \in 1..Len(report.keyMoments) :
       /\ report.keyMoments[m].label = "Peak Height"
       /\ report.keyMoments[m].metrics.bodyHeight > 45
  /\ WithIssue(weaknessList, "Low Contact Point") = { }

----------------------------------------------------------------------------
(* Inputs of the composed matcher runs: detectWeaknesses on a report in     *)
(* which any set of the input places deviates as far as it can, then        *)
(* generateDrillRecommendations on its result with the shipped catalog.     *)

\* Every place of the set at its last alternative.
WorstOf(places) == [q \in places |-> Len(RuleAlternatives[q])]

InitComposed ==
  /\ pc = "report"
  /\ video = [frames |-> << >>]
  /\ opts = [minVisibility |-> Undefined]
  /\ \E places \in SUBSET RulePlaces :
       report = [analysisFrames |-> 0,
                 keyMetrics |-> RuleMetrics(WorstOf(places)),
                 phases |-> RulePhases(WorstOf(places)),
                 keyMoments |-> RuleMoments(WorstOf(places)),
                 timelineData |-> [velocities |-> << >>, angles |-> << >>]]
  /\ weaknessList = << >>
  /\ drillRecs = << >>
  /\ catalog = DRILL_DATABASE
  /\ HookInit

SpecComposed == InitComposed /\ [][NextRules]_vars

Distinct(s) == \A i, j \in 1..Len(s) : i # j => s[i] # s[j]

\* C29: for a weakness list of length n produced by detectWeaknesses, with
\* the shipped catalog, generateDrillRecommendations returns min(5, n)
\* recommendations with priorities 1..min(5, n), one per weakness in list
\* order, each with exactly 3 distinct drills: the first three ids of the
\* issue's WEAKNESS_TO_DRILL_MAP entry, in list order, all found by id, so
\* that the category fallback is never taken.
C29_ThreeMappedDrillsEach ==
  pc = "done" =>
    /\ Len(drillRecs) = Min2(5, Len(weaknessList))
    /\ \A i \in 1..Len(drillRecs) :
         LET w == weaknessList[i]
         IN /\ drillRecs[i].priority = i
            /\ drillRecs[i].weakness = w
            /\ w.issue \in DOMAIN WEAKNESS_TO_DRILL_MAP
            /\ Len(WEAKNESS_TO_DRILL_MAP[w.issue]) >= 3
            /\ Len(SpecificDrills(w)) = 3
            /\ IdsOf(drillRecs[i].recommendedDrills) = Slice(WEAKNESS_TO_DRILL_MAP[w.issue], 3)
            /\ Distinct(IdsOf(drillRecs[i].recommendedDrills))

\* More than five weaknesses detected, five recommendations returned.
C29_Witness ==
  /\ pc = "done"
  /\ Len(weaknessList) > 5
  /\ Len(drillRecs) = 5
  /\ drillRecs[5].priority = 5
  /\ Len(drillRecs[5].recommendedDrills) = 3

----------------------------------------------------------------------------
(* useVideoSync.ts: seeking.  A handleSeek call runs up to its await, and   *)
(* goes on when the player's seek promise settles; the release timers all   *)
(* have the same delay, so they fire in the order they were set.            *)

\* The handleSeek calls of one run are capped.
MaxSeeks == 3

\* handleSeek up to `await videoPlayerRef.current.seek(timeInSeconds)`
HandleSeek(timeInSeconds) ==
  /\ pc = "replay"
  /\ Len(seeks) < MaxSeeks
  /\ isSeekingRef' = TRUE
  /\ seeks' = Append(seeks, [timeInSeconds |-> timeInSeconds, at |-> "seek"])
  /\ UNCHANGED << pc, video, opts, report, weaknessList, drillRecs, catalog,
                  currentFrame, playbackState, playbackRefs, timers >>

\* handleSeek after the seek promise of call i resolved: the try block's
\* remainder, then the finally block sets the release timer.
SeekResolved(i) ==
  /\ pc = "replay"
  /\ seeks[i].at = "seek"
  /\ currentFrame' = GetFrameByTimestamp(video, seeks[i].timeInSeconds)
  /\ playbackState' = [playbackState EXCEPT
                         !.isPlaying = FALSE,
                         !.currentFrame = TimestampToFrameNumber(seeks[i].timeInSeconds,
                                                                 video.video_info.fps),
                         !.currentTime = seeks[i].timeInSeconds]
  /\ seeks' = [seeks EXCEPT ![i].at = "timer"]
  /\ timers' = Append(timers, i)
  /\ UNCHANGED << pc, video, opts, report, weaknessList, drillRecs, catalog,
                  playbackRefs, isSeekingRef >>

\* handleSeek after the seek promise of call i rejected: the catch block
\* logs, then the finally block sets the release timer.
SeekRejected(i) ==
  /\ pc = "replay"
  /\ seeks[i].at = "seek"
  /\ seeks' = [seeks EXCEPT ![i].at = "timer"]
  /\ timers' = Append(timers, i)
  /\ UNCHANGED << pc, video, opts, report, weaknessList, drillRecs, catalog,
                  currentFrame, playbackState, playbackRefs, isSeekingRef >>

\* The setTimeout callback of the oldest pending timer.
ReleaseTimer ==
  /\ pc = "replay"
  /\ timers # << >>
  /\ isSeekingRef' = FALSE
  /\ seeks' = [seeks EXCEPT ![Head(timers)].at = "done"]
  /\ timers' = Tail(timers)
  /\ UNCHANGED << pc, video, opts, report, weaknessList, drillRecs, catalog,
                  currentFrame, playbackState, playbackRefs >>

\* handlePreviousFrame
HandlePreviousFrame ==
  HandleSeek(FrameNumberToTimestamp(Max2(0, playbackState.currentFrame - 1),
                                    video.video_info.fps))

\* handleNextFrame
HandleNextFrame ==
  HandleSeek(FrameNumberToTimestamp(Min2(video.video_info.total_frames - 1,
                                         playbackState.currentFrame + 1),
                                    video.video_info.fps))

\* handlePlaybackUpdate: the player's status callback.
HandlePlaybackUpdate(status) ==
  /\ pc = "replay"
  /\ IF isSeekingRef
       THEN UNCHANGED << currentFrame, playbackState, playbackRefs >>
       ELSE /\ playbackRefs' = [isPlaying |-> status.isPlaying,
                                playbackSpeed |-> playbackState.speed,
                                playbackStartPosition |-> status.currentTime]
            /\ currentFrame' = GetFrameByTimestamp(video, status.currentTime)
            /\ playbackState' = [isPlaying |-> status.isPlaying,
                                 currentFrame |-> TimestampToFrameNumber(status.currentTime,
                                                                         video.video_info.fps),
                                 currentTime |-> status.currentTime,
                                 speed |-> playbackState.speed,
                                 duration |-> status.duration]
  /\ UNCHANGED << pc, video, opts, report, weaknessList, drillRecs, catalog,
                  isSeekingRef, seeks, timers >>

----------------------------------------------------------------------------
(* Inputs of the seeking runs: a three-frame analysis at 10 fps on the      *)
(* replay screen; seeks from the slider and the frame-step buttons, status  *)
(* callbacks of the player, seek promises that resolve or reject.           *)

SyncAnalysis ==
  AnalysisOf(BuildFrames(<< PoseWristA, PoseNone, PoseWristB >>, << 1, 1 >>,
                         << PhaseFrameTime, PhaseFrameTime >>, 0, 0))

\* Positions the slider seeks to and the player reports, in milliseconds.
SyncTimes == { 0, 2 * PhaseFrameTime }

Statuses ==
  [isPlaying : BOOLEAN, currentTime : SyncTimes, duration : { 3 * PhaseFrameTime }]

InitSync ==
  /\ pc = "replay"
  /\ video = SyncAnalysis
  /\ opts = [minVisibility |-> Undefined]
  /\ report = NoReport
  /\ weaknessList = << >>
  /\ drillRecs = << >>
  /\ catalog = DRILL_DATABASE
  /\ HookInit

NextSync ==
  \/ \E t \in SyncTimes : HandleSeek(t)
  \/ HandlePreviousFrame
  \/ HandleNextFrame
  \/ \E i \in 1..Len(seeks) : SeekResolved(i)
  \/ \E i \in 1..Len(seeks) : SeekRejected(i)
  \/ ReleaseTimer
  \/ \E status \in Statuses : HandlePlaybackUpdate(status)

SpecSync == InitSync /\ [][NextSync]_vars

\* The event loop runs a timer callback once its delay has passed.
SpecSyncLive == SpecSync /\ WF_vars(ReleaseTimer)

\* Some handleSeek call is awaiting the player's seek.
SeekAwaited == \E i \in 1..Len(seeks) : seeks[i].at = "seek"

\* A status callback that gets past the guard of handlePlaybackUpdate.
StatusApplied == \E status \in Statuses : ~isSeekingRef /\ HandlePlaybackUpdate(status)

\* Once no handleSeek call awaits its seek, the seeking flag is cleared,
\* unless a new handleSeek call starts first.
SeekingEventuallyCleared ==
  (isSeekingRef /\ ~SeekAwaited) ~> (~isSeekingRef \/ SeekAwaited)

\* C30: for every interleaving of handleSeek calls, their release timers and
\* the player's status callbacks, handlePlaybackUpdate applies no status
\* while a handleSeek call is awaiting the player's seek, and the seeking
\* flag is eventually cleared after the last seek has settled, resolved or
\* rejected.
C30_NoStatusWhileSeekAwaited ==
  /\ [][StatusApplied => ~SeekAwaited]_vars
  /\ SeekingEventuallyCleared

=============================================================================
